---------------------------- MODULE Spec2Model ----------------------------
(***************************************************************************)
(* Model of the QA-annotation -> tracker-issue synchroniser:               *)
(*   - the design-tool plugin (syncQaAnnotations, resetSyncedAnnotations,  *)
(*     fetchWithTimeout, isSignatureSynced, markSignatureSynced,           *)
(*     hashString),                                                        *)
(*   - the serverless sync service (api/qa-issues.js),                     *)
(*   - the network between them and the remote tracker as environment.     *)
(* Strings that are hashed are sequences of character codes.               *)
(***************************************************************************)
EXTENDS Integers, Sequences, FiniteSets, TLC

(***************************************************************************)
(* Bounds of the model.                                                    *)
(***************************************************************************)
\* how many sync/reset handlers may be started in one behaviour
MaxRuns == 2
\* how many annotations the whole document carries
MaxItems == 2
\* how long an annotation text handed to the signature construction may be
MaxLen == 3

(***************************************************************************)
(* Strings as sequences of character codes.                                *)
(***************************************************************************)
Concat(s, t) == s \o t

\* '|'
Bar == <<124>>

(***************************************************************************)
(* hashString: hash = (hash * 31 + charCode) >>> 0, then toString(16).     *)
(* The 32-bit accumulator is kept as two 16-bit limbs [hi, lo].            *)
(***************************************************************************)
Limb == 65536

\* one step of the loop; the accumulator and the character code are bound once,
\* to their values
HashStep(h, c) ==
    CHOOSE next \in {[hi |-> (x.hi * 31 + ((x.lo * 31 + code) \div Limb)) % Limb,
                      lo |-> (x.lo * 31 + code) % Limb] : x \in {h}, code \in {c}} : TRUE

RECURSIVE HashFrom(_, _, _)
HashFrom(h, value, i) ==
    IF i > Len(value) THEN h
    ELSE HashFrom(HashStep(h, value[i]), value, i + 1)

\* one hexadecimal digit as its character code ('0'..'9', 'a'..'f')
HexDigit(d) == IF d < 10 THEN 48 + d ELSE 87 + d

RECURSIVE HexOf(_)
\* Number.prototype.toString(16) of a non-negative integer below 65536
HexOf(n) == IF n < 16 THEN <<HexDigit(n)>> ELSE HexOf(n \div 16) \o <<HexDigit(n % 16)>>

\* the four-digit, zero-padded rendering of the low limb
Hex4(n) ==
    <<HexDigit((n \div 4096) % 16), HexDigit((n \div 256) % 16),
      HexDigit((n \div 16) % 16), HexDigit(n % 16)>>

ToString16(h) == IF h.hi = 0 THEN HexOf(h.lo) ELSE HexOf(h.hi) \o Hex4(h.lo)

hashString(value) == ToString16(HashFrom([hi |-> 0, lo |-> 0], value, 1))

\* a faulty signature construction that leaves the category out of the hashed string
SignatureInputNoCategory(nodeId, categoryId, annotationText) ==
    Concat(nodeId, Concat(Bar, annotationText))

\* the string handed to hashString: `${node.id}|${annotation.categoryId ?? ''}|${annotationText}`
SignatureInput(nodeId, categoryId, annotationText) ==
    Concat(nodeId, Concat(Bar, Concat(categoryId, Concat(Bar, annotationText))))

SignatureOf(nodeId, categoryId, annotationText) ==
    hashString(SignatureInput(nodeId, categoryId, annotationText))


(***************************************************************************)
(* The source document: annotated nodes on pages.  It does not change      *)
(* during a behaviour.                                                     *)
(***************************************************************************)
\* node ids "1:2" (on the current page) and "2:1" (on another page)
Node12 == <<49, 58, 50>>
Node21 == <<50, 58, 49>>
Nodes == {Node12, Node21}
\* traversal order of figma.root.children / page.findAll
NodeOrder == <<Node12, Node21>>
CurrentPage == 1
PageOf(n) == IF n = Node12 THEN 1 ELSE 2

\* the id of the category labelled "qa", and the id of another category
QaCategoryId == <<113>>
DevCategoryId == <<100>>
\* annotation texts: '', "Aa", "BB"
Texts == {<<>>, <<65, 97>>, <<66, 66>>}
AnnotationPool ==
    [categoryId : {QaCategoryId}, text : Texts]
        \cup {[categoryId |-> DevCategoryId, text |-> <<65, 97>>]}

RECURSIVE SeqsUpTo(_, _)
SeqsUpTo(S, n) ==
    IF n = 0 THEN {<<>>}
    ELSE LET shorter == SeqsUpTo(S, n - 1)
         IN  shorter \cup {Append(q, x) : q \in {t \in shorter : Len(t) = n - 1}, x \in S}

Documents ==
    {d \in [Nodes -> SeqsUpTo(AnnotationPool, MaxItems)] :
        Len(d[Node12]) + Len(d[Node21]) <= MaxItems}

(***************************************************************************)
(* The per-node plugin data under PLUGIN_DATA_KEY: the empty string, or    *)
(* the JSON text of an array of signatures.                                *)
(***************************************************************************)
EmptyString == [kind |-> "empty", items |-> <<>>]
JSONstringify(arr) == [kind |-> "array", items |-> arr]
JSONparse(stored) == stored.items
\* `!stored`: the empty string is falsy
Falsy(stored) == stored.kind = "empty"

Includes(arr, x) == \E i \in 1..Len(arr) : arr[i] = x

\* a faulty isSignatureSynced that takes any non-empty record for a match
isSignatureSyncedAnyRecord(stored, signature) == ~Falsy(stored)

\* isSignatureSynced(node, signature), on the node's stored value
isSignatureSynced(stored, signature) ==
    IF Falsy(stored) THEN FALSE
    ELSE Includes(JSONparse(stored), signature)

\* a faulty markSignatureSynced that pushes without looking for the signature
markSignatureSyncedNoCheck(stored, signature) ==
    LET parsed == IF Falsy(stored) THEN <<>> ELSE JSONparse(stored)
    IN  JSONstringify(Append(parsed, signature))

\* a faulty markSignatureSynced that stores the new signature alone instead of
\* appending it to the stored array
markSignatureSyncedOverwrite(stored, signature) ==
    LET parsed == IF Falsy(stored) THEN <<>> ELSE JSONparse(stored)
    IN  IF ~Includes(parsed, signature)
        THEN JSONstringify(<<signature>>)
        ELSE stored

\* markSignatureSynced(node, signature): the node's stored value afterwards
markSignatureSynced(stored, signature) ==
    LET parsed == IF Falsy(stored) THEN <<>> ELSE JSONparse(stored)
    IN  IF ~Includes(parsed, signature)
        THEN JSONstringify(Append(parsed, signature))
        ELSE stored

(***************************************************************************)
(* Settings, request items and UI messages of the plugin.                  *)
(***************************************************************************)
\* settings after normalizeSettings; the first four are the well-formed ones
SettingsChoices ==
    [endpoint : {"https://sync"}, owner : {"o"}, repo : {"r"}, fileKey : {"k"},
     scanAllPages : BOOLEAN, skipSynced : BOOLEAN]
    \cup {[endpoint |-> "", owner |-> "o", repo |-> "r", fileKey |-> "k",
           scanAllPages |-> FALSE, skipSynced |-> TRUE],
          [endpoint |-> "https://sync", owner |-> "", repo |-> "r", fileKey |-> "k",
           scanAllPages |-> FALSE, skipSynced |-> TRUE],
          [endpoint |-> "https://sync", owner |-> "o", repo |-> "", fileKey |-> "k",
           scanAllPages |-> FALSE, skipSynced |-> TRUE],
          [endpoint |-> "https://sync", owner |-> "o", repo |-> "r", fileKey |-> "",
           scanAllPages |-> FALSE, skipSynced |-> TRUE]}

NoSettings ==
    [endpoint |-> "", owner |-> "", repo |-> "", fileKey |-> "",
     scanAllPages |-> FALSE, skipSynced |-> TRUE]

\* "(No annotation text)"
NoAnnotationText ==
    <<40, 78, 111, 32, 97, 110, 110, 111, 116, 97, 116, 105, 111, 110, 32, 116, 101, 120, 116, 41>>

\* a faulty body construction without `annotationText || '(No annotation text)'`
\* and without the link, so that an annotation without text gives an empty body
buildIssueBodyOfTextOnly(annotationText, nodeId) ==
    [annotationText |-> annotationText, figmaLink |-> <<>>]

\* buildIssueBody: the parts of the body that depend on the annotation
buildIssueBody(annotationText, nodeId) ==
    [annotationText |-> IF annotationText = <<>> THEN NoAnnotationText ELSE annotationText,
     figmaLink |-> nodeId]

\* the pages scanned: figma.root.children or [figma.currentPage]
InScope(st, n) == st.scanAllPages \/ PageOf(n) = CurrentPage

\* the (node, annotation index) pairs in traversal order over the pages in scope
RECURSIVE Traversal(_, _, _, _)
Traversal(d, st, k, i) ==
    IF k > Len(NodeOrder) THEN <<>>
    ELSE LET n == NodeOrder[k]
         IN  IF ~InScope(st, n) \/ i > Len(d[n]) THEN Traversal(d, st, k + 1, 1)
             ELSE <<[node |-> n, index |-> i]>> \o Traversal(d, st, k, i + 1)

\* the terminal messages figma.ui.postMessage carries (progress messages are not kept)
UiMessage(type, text, detail, n1, n2) ==
    [type |-> type, text |-> text, detail |-> detail, n1 |-> n1, n2 |-> n2]
MissingEndpoint == UiMessage("error", "enter the endpoint URL", "", 0, 0)
MissingOwnerRepo == UiMessage("error", "enter the owner/repo", "", 0, 0)
MissingFileKey == UiMessage("error", "file key not found", "", 0, 0)
MissingCategory == UiMessage("error", "QA category not found", "", 0, 0)
NothingToSend == UiMessage("empty", "no QA annotation to send", "", 0, 0)
TimeoutMessage == UiMessage("error", "request timed out: check the network/endpoint", "", 0, 0)
RequestFailed(message) == UiMessage("error", "request failed: ", message, 0, 0)
ServerError(status, text) == UiMessage("error", "server error", text, status, 0)
Done(createdCount, failed) == UiMessage("done", "done", "", createdCount, failed)

(***************************************************************************)
(* The sync service (api/qa-issues.js) and the remote tracker's answers.   *)
(***************************************************************************)
\* an absent (undefined) string-valued field
Undefined == <<-1>>
NullId == "null"

\* the environment of the deployed service
Environments ==
    {[token |-> TRUE, secret |-> "", projectName |-> "", projectNumber |-> 0],
     [token |-> TRUE, secret |-> "", projectName |-> "Board", projectNumber |-> 0],
     [token |-> FALSE, secret |-> "", projectName |-> "", projectNumber |-> 0],
     [token |-> TRUE, secret |-> "s3", projectName |-> "", projectNumber |-> 0]}

Is2xx(status) == status >= 200 /\ status < 300

\* the deployments the service alone is checked in: also one with a secret
\* configured and the credential missing
ServiceEnvironments ==
    Environments \cup {[token |-> FALSE, secret |-> "s3", projectName |-> "", projectNumber |-> 0]}

\* faulty top-level checks that look for the credential before the shared secret
TopLevelStatusTokenFirst(req, e) ==
    IF req.method = "OPTIONS" THEN 204
    ELSE IF req.method # "POST" THEN 405
    ELSE IF ~e.token THEN 500
    ELSE IF e.secret # "" /\ (req.secret = "" \/ req.secret # e.secret) THEN 401
    ELSE IF ~req.parses THEN 400
    ELSE IF req.payload.owner = "" \/ req.payload.repo = "" \/ ~req.payload.isArray THEN 400
    ELSE 0

\* the top-level checks: 0 when the request passes them, else the status answered
TopLevelStatus(req, e) ==
    IF req.method = "OPTIONS" THEN 204
    ELSE IF req.method # "POST" THEN 405
    ELSE IF e.secret # "" /\ (req.secret = "" \/ req.secret # e.secret) THEN 401
    ELSE IF ~e.token THEN 500
    ELSE IF ~req.parses THEN 400
    ELSE IF req.payload.owner = "" \/ req.payload.repo = "" \/ ~req.payload.isArray THEN 400
    ELSE 0

TopLevelError(status) ==
    CASE status = 405 -> "Method Not Allowed"
      [] status = 401 -> "Unauthorized"
      [] status = 500 -> "Missing GITHUB_TOKEN"
      [] status = 400 -> "Invalid payload"
      [] OTHER -> ""

\* what a project lookup (organization or user scope) can answer
LookupOutcomes == {"found", "none", "nonok", "throw"}
Lookups == [org : LookupOutcomes, user : LookupOutcomes]

\* fetchProjectId / fetchProjectIdByNumber: organization first, then user
fetchProjectId(lk) ==
    IF lk.org = "throw" THEN NullId
    ELSE IF lk.org = "found" THEN "PVT_org"
    ELSE IF lk.user = "throw" THEN NullId
    ELSE IF lk.user = "found" THEN "PVT_user"
    ELSE NullId

\* no call made to the tracker
NoCalls == [lookup |-> FALSE, creates |-> 0]

\* whether the handler asks the tracker for the project (lines 52-64)
LooksUp(req, e) ==
    LET projectOwner == req.payload.owner
    IN  (e.projectNumber # 0 /\ projectOwner # "") \/ (e.projectName # "" /\ projectOwner # "")

\* the project resolution of the handler (projectOwner falls back to owner)
ResolveProject(req, e, lk) ==
    LET projectOwner == req.payload.owner
    IN  IF e.projectNumber # 0 /\ projectOwner # "" THEN fetchProjectId(lk)
        ELSE IF e.projectName # "" /\ projectOwner # "" THEN fetchProjectId(lk)
        ELSE NullId

\* the tracker's answer to one issue-creation call: the call throws, or answers
\* with a status and (when the body parses) html_url and node_id
CreateOutcomes ==
    {[threw |-> TRUE, status |-> 0, data |-> FALSE],
     [threw |-> FALSE, status |-> 201, data |-> TRUE],
     [threw |-> FALSE, status |-> 201, data |-> FALSE],
     [threw |-> FALSE, status |-> 422, data |-> FALSE]}
\* the tracker's answer to one attachment (GraphQL) call
AttachOutcomes ==
    {[threw |-> TRUE, status |-> 0, errors |-> FALSE],
     [threw |-> FALSE, status |-> 200, errors |-> FALSE],
     [threw |-> FALSE, status |-> 200, errors |-> TRUE],
     [threw |-> FALSE, status |-> 401, errors |-> FALSE]}
NoAttach == [threw |-> FALSE, status |-> 0, errors |-> FALSE]

NoProjectStatus == [called |-> FALSE, status |-> 0, error |-> ""]

\* a faulty addIssueToProject that looks at response.ok only and so reports no
\* error when the GraphQL payload carries errors
addIssueToProjectOkOnly(projectId, hasContentId, at) ==
    IF projectId = NullId \/ ~hasContentId THEN [called |-> FALSE, status |-> 0, error |-> ""]
    ELSE IF at.threw THEN [called |-> TRUE, status |-> 0, error |-> "Unknown error"]
    ELSE IF ~Is2xx(at.status)
         THEN [called |-> TRUE, status |-> at.status, error |-> "attach error"]
    ELSE [called |-> TRUE, status |-> at.status, error |-> ""]

\* a faulty addIssueToProject without the test of projectId: it calls the
\* tracker also when no board was resolved
addIssueToProjectWithoutBoard(projectId, hasContentId, at) ==
    IF ~hasContentId THEN NoProjectStatus
    ELSE IF at.threw THEN [called |-> TRUE, status |-> 0, error |-> "Unknown error"]
    ELSE IF ~Is2xx(at.status) \/ at.errors
         THEN [called |-> TRUE, status |-> at.status, error |-> "attach error"]
    ELSE [called |-> TRUE, status |-> at.status, error |-> ""]

\* addIssueToProject(token, projectId, contentId)
addIssueToProject(projectId, hasContentId, at) ==
    IF projectId = NullId \/ ~hasContentId THEN NoProjectStatus
    ELSE IF at.threw THEN [called |-> TRUE, status |-> 0, error |-> "Unknown error"]
    ELSE IF ~Is2xx(at.status) \/ at.errors
         THEN [called |-> TRUE, status |-> at.status, error |-> "attach error"]
    ELSE [called |-> TRUE, status |-> at.status, error |-> ""]

\* a missing (or empty) body
EmptyBody == [annotationText |-> <<>>, figmaLink |-> <<>>]

\* `!title || !body`
MissingTitleOrBody(issue) == issue.title = "" \/ issue.body = EmptyBody

\* a faulty item loop whose catch block pushes the 500 result without `failed += 1`
ProcessItemForgetsFailure(issue, projectId, oc) ==
    LET key == [nodeId |-> issue.nodeId, signature |-> issue.signature]
        fail(status, error, calls, counted) ==
            [result |-> [nodeId |-> key.nodeId, signature |-> key.signature,
                         status |-> status, url |-> "", error |-> error,
                         projectStatus |-> NoProjectStatus],
             created |-> 0, failed |-> counted, createCalls |-> calls, issued |-> FALSE]
    IN  IF MissingTitleOrBody(issue) THEN fail(400, "Missing title or body", 0, 1)
        ELSE IF oc.create.threw THEN fail(500, "Unknown error", 1, 0)
        ELSE IF ~Is2xx(oc.create.status) THEN fail(oc.create.status, "tracker error", 1, 1)
        ELSE [result |-> [nodeId |-> key.nodeId, signature |-> key.signature,
                          status |-> oc.create.status,
                          url |-> IF oc.create.data THEN "https://tracker/issue" ELSE "",
                          error |-> "",
                          projectStatus |-> addIssueToProject(projectId, oc.create.data,
                                                              oc.attach)],
              created |-> 1, failed |-> 0, createCalls |-> 1, issued |-> TRUE]

\* a faulty item loop whose validation branch pushes the 400 result without the
\* item's nodeId and signature
ProcessItemDropsKey(issue, projectId, oc) ==
    LET fail(nodeId, signature, status, error, calls) ==
            [result |-> [nodeId |-> nodeId, signature |-> signature,
                         status |-> status, url |-> "", error |-> error,
                         projectStatus |-> NoProjectStatus],
             created |-> 0, failed |-> 1, createCalls |-> calls, issued |-> FALSE]
    IN  IF MissingTitleOrBody(issue)
        THEN fail(Undefined, Undefined, 400, "Missing title or body", 0)
        ELSE IF oc.create.threw
        THEN fail(issue.nodeId, issue.signature, 500, "Unknown error", 1)
        ELSE IF ~Is2xx(oc.create.status)
        THEN fail(issue.nodeId, issue.signature, oc.create.status, "tracker error", 1)
        ELSE [result |-> [nodeId |-> issue.nodeId, signature |-> issue.signature,
                          status |-> oc.create.status,
                          url |-> IF oc.create.data THEN "https://tracker/issue" ELSE "",
                          error |-> "",
                          projectStatus |-> addIssueToProject(projectId, oc.create.data,
                                                              oc.attach)],
              created |-> 1, failed |-> 0, createCalls |-> 1, issued |-> TRUE]

\* a faulty item loop that validates an item only after asking the tracker to
\* create it
ProcessItemValidatesLate(issue, projectId, oc) ==
    LET fail(status, error) ==
            [result |-> [nodeId |-> issue.nodeId, signature |-> issue.signature,
                         status |-> status, url |-> "", error |-> error,
                         projectStatus |-> NoProjectStatus],
             created |-> 0, failed |-> 1, createCalls |-> 1, issued |-> FALSE]
    IN  IF MissingTitleOrBody(issue) THEN fail(400, "Missing title or body")
        ELSE IF oc.create.threw THEN fail(500, "Unknown error")
        ELSE IF ~Is2xx(oc.create.status) THEN fail(oc.create.status, "tracker error")
        ELSE [result |-> [nodeId |-> issue.nodeId, signature |-> issue.signature,
                          status |-> oc.create.status,
                          url |-> IF oc.create.data THEN "https://tracker/issue" ELSE "",
                          error |-> "",
                          projectStatus |-> addIssueToProject(projectId, oc.create.data,
                                                              oc.attach)],
              created |-> 1, failed |-> 0, createCalls |-> 1, issued |-> TRUE]

\* one pass of the item loop: the result pushed and the counters' increments
ProcessItem(issue, projectId, oc) ==
    IF MissingTitleOrBody(issue)
    THEN [result |-> [nodeId |-> issue.nodeId, signature |-> issue.signature, status |-> 400,
                      url |-> "", error |-> "Missing title or body",
                      projectStatus |-> NoProjectStatus],
          created |-> 0, failed |-> 1, createCalls |-> 0, issued |-> FALSE]
    ELSE IF oc.create.threw
    THEN [result |-> [nodeId |-> issue.nodeId, signature |-> issue.signature, status |-> 500,
                      url |-> "", error |-> "Unknown error",
                      projectStatus |-> NoProjectStatus],
          created |-> 0, failed |-> 1, createCalls |-> 1, issued |-> FALSE]
    ELSE IF ~Is2xx(oc.create.status)
    THEN [result |-> [nodeId |-> issue.nodeId, signature |-> issue.signature,
                      status |-> oc.create.status,
                      url |-> "", error |-> "tracker error",
                      projectStatus |-> NoProjectStatus],
          created |-> 0, failed |-> 1, createCalls |-> 1, issued |-> FALSE]
    ELSE [result |-> [nodeId |-> issue.nodeId, signature |-> issue.signature,
                      status |-> oc.create.status,
                      url |-> IF oc.create.data THEN "https://tracker/issue" ELSE "",
                      error |-> "",
                      projectStatus |-> addIssueToProject(projectId, oc.create.data, oc.attach)],
          created |-> 1, failed |-> 0, createCalls |-> 1, issued |-> TRUE]

\* the outcomes that matter for one item, given the resolved project
ItemOutcomes(projectId) ==
    {[create |-> c, attach |-> NoAttach] :
        c \in {x \in CreateOutcomes : projectId = NullId \/ ~x.data}}
    \cup {[create |-> c, attach |-> a] :
            c \in {x \in CreateOutcomes : projectId # NullId /\ x.data}, a \in AttachOutcomes}


RECURSIVE ProcessItemsFailFast(_, _, _, _)
\* a faulty item loop that gives up the rest of the batch at the first item that fails
ProcessItemsFailFast(issueList, projectId, ocs, i) ==
    IF i > Len(issueList)
    THEN [results |-> <<>>, created |-> 0, failed |-> 0, createCalls |-> 0,
          issuedBodies |-> <<>>]
    ELSE LET one == ProcessItem(issueList[i], projectId, ocs[i])
             rest == IF one.failed = 1
                     THEN [results |-> <<>>, created |-> 0, failed |-> 0, createCalls |-> 0,
                           issuedBodies |-> <<>>]
                     ELSE ProcessItemsFailFast(issueList, projectId, ocs, i + 1)
         IN  [results |-> <<one.result>> \o rest.results,
              created |-> one.created + rest.created,
              failed |-> one.failed + rest.failed,
              createCalls |-> one.createCalls + rest.createCalls,
              issuedBodies |-> (IF one.issued THEN <<issueList[i].body>> ELSE <<>>)
                                  \o rest.issuedBodies]

RECURSIVE ProcessItems(_, _, _, _)
\* the item loop over issues[i..]: the results in input order, the counters and
\* the bodies of the issues the tracker created
ProcessItems(issueList, projectId, ocs, i) ==
    IF i > Len(issueList)
    THEN [results |-> <<>>, created |-> 0, failed |-> 0, createCalls |-> 0,
          issuedBodies |-> <<>>]
    ELSE LET one == ProcessItem(issueList[i], projectId, ocs[i])
             rest == ProcessItems(issueList, projectId, ocs, i + 1)
         IN  [results |-> <<one.result>> \o rest.results,
              created |-> one.created + rest.created,
              failed |-> one.failed + rest.failed,
              createCalls |-> one.createCalls + rest.createCalls,
              issuedBodies |-> (IF one.issued THEN <<issueList[i].body>> ELSE <<>>)
                                  \o rest.issuedBodies]

NoRequest ==
    [method |-> "", secret |-> "", parses |-> FALSE,
     payload |-> [owner |-> "", repo |-> "", isArray |-> FALSE, issues |-> <<>>]]

NoResponse ==
    [status |-> 0, text |-> "", created |-> 0, failed |-> 0, results |-> <<>>]

\* module.exports: the response to a request, given the tracker's answers
HandleRequest(req, e, projectId, ocs) ==
    LET top == TopLevelStatus(req, e)
    IN  IF top # 0
        THEN [response |-> [status |-> top, text |-> TopLevelError(top), created |-> 0,
                            failed |-> 0, results |-> <<>>],
              issuedBodies |-> <<>>,
              calls |-> NoCalls]
        ELSE LET done == ProcessItems(req.payload.issues, projectId, ocs, 1)
             IN  [response |-> [status |-> 200, text |-> "", created |-> done.created,
                                failed |-> done.failed, results |-> done.results],
                  issuedBodies |-> done.issuedBodies,
                  calls |-> [lookup |-> LooksUp(req, e), creates |-> done.createCalls]]

(***************************************************************************)
(* State.                                                                  *)
(***************************************************************************)
\* the invocations of the 'sync-qa' handler that can be in progress at once
Runs == {1, 2}

\* the issue bodies the collector can build
Bodies == {buildIssueBody(t, n) : t \in Texts, n \in Nodes}

\* before the service has handled a request
NoAnswers == [projectId |-> NullId, ocs |-> <<>>]
\* the entry of an item the loop rejected before calling the tracker
NotConsulted == [create |-> [threw |-> FALSE, status |-> 0, data |-> FALSE], attach |-> NoAttach]
\* what is remembered of the last finished run; for a run in progress, clean
\* tells that no reset has run since it started
\* no category found (getQaCategory() returned null), or none looked for yet
NoCategory == <<>>
\* no string signed
NoSample ==
    [nodeId |-> <<>>, categoryId |-> <<>>, text |-> <<>>, other |-> <<>>,
     signature |-> <<>>, otherSignature |-> <<>>, signed |-> 0]
\* a node no reset went over (or one whose reset a later sync has followed up)
NotReset == [over |-> FALSE, removed |-> EmptyString, followed |-> FALSE, written |-> FALSE]
\* the handler of the service before it is invoked
NoService ==
    [phase |-> "idle", by |-> "none", projectId |-> NullId, i |-> 0, results |-> <<>>,
     created |-> 0, failed |-> 0, pending |-> NotConsulted.create, inflight |-> {},
     log |-> <<>>]
NoHistory == [reconciled |-> FALSE, allOk |-> FALSE, scanAllPages |-> FALSE, clean |-> TRUE]
Interrupted == [NoHistory EXCEPT !.clean = FALSE]

VARIABLES
    doc,         \* the annotations of each node
    env,         \* the environment of the deployed service
    pluginData,  \* node -> the value stored under PLUGIN_DATA_KEY
    started,     \* how many sync handlers were started
    pc,          \* run -> "idle" | "collect" | "await" | "done"
    settings,    \* run -> its settings
    pos,         \* run -> the position of the collect loop in the traversal
    issues,      \* run -> the batch built so far
    nodeMap,     \* run -> the node ids put into nodeMap
    promise,     \* run -> the promise fetchWithTimeout returned
    timer,       \* run -> the timeout timer: "off" | "armed" | "cleared" | "fired"
    fetchState,  \* run -> the platform fetch: "none" | "pending" | "resolved" | "rejected"
    netStage,    \* run -> where the HTTP exchange is: "none" | "request" | "response"
    request,     \* run -> the request it sent
    response,    \* run -> the response the service produced
    ui,          \* run -> the terminal messages the run posted to the UI
    tracker,     \* issue body -> how many issues the tracker created with it
    stale,       \* the batches of abandoned requests the service has not handled yet
    writes,      \* run -> the (node, signature) pairs it stored with setPluginData
    history,     \* the last finished run, forgotten at a reset
    prev,        \* run -> the history when the run started, Interrupted after a reset
    answers,     \* run -> the project resolved and the tracker's answers to its request
    elapsed,     \* run -> whether 20000 ms passed with the fetch still pending
    build,       \* which plugin source is running: "timeout" (part_000) | "plain" (part_001)
    category,    \* run -> the id of the category getQaCategory() found
    calls,       \* run -> the calls the service made to the tracker for its request
    sample,      \* the strings handed to the signature construction, and its results
    svc,         \* the service's handler followed one await at a time: its locals and calls
    cleared      \* node -> the last reset that went over it: the record it removed, whether a
                 \* sync was started since, whether a sync wrote to the node since

vars ==
    <<doc, env, pluginData, started, pc, settings, pos, issues, nodeMap, promise, timer,
      fetchState, netStage, request, response, ui, tracker, stale, writes, history, prev,
      answers, elapsed, build, category, calls, sample, svc, cleared>>

\* the state before any handler has run, for a document and a deployment,
\* but for the records the document holds
InitAround(documents, environments, builds, samples) ==
    /\ doc \in documents
    /\ env \in environments
    /\ build \in builds
    /\ sample \in samples
    /\ category = [r \in Runs |-> NoCategory]
    /\ calls = [r \in Runs |-> NoCalls]
    /\ answers = [r \in Runs |-> NoAnswers]
    /\ elapsed = [r \in Runs |-> FALSE]
    /\ started = 0
    /\ pc = [r \in Runs |-> "idle"]
    /\ settings = [r \in Runs |-> NoSettings]
    /\ pos = [r \in Runs |-> 1]
    /\ issues = [r \in Runs |-> <<>>]
    /\ nodeMap = [r \in Runs |-> {}]
    /\ promise = [r \in Runs |-> "none"]
    /\ timer = [r \in Runs |-> "off"]
    /\ fetchState = [r \in Runs |-> "none"]
    /\ netStage = [r \in Runs |-> "none"]
    /\ request = [r \in Runs |-> NoRequest]
    /\ response = [r \in Runs |-> NoResponse]
    /\ ui = [r \in Runs |-> <<>>]
    /\ tracker = [b \in Bodies |-> 0]
    /\ stale = {}
    /\ writes = [r \in Runs |-> <<>>]
    /\ history = NoHistory
    /\ prev = [r \in Runs |-> NoHistory]
    /\ svc = NoService
    /\ cleared = [n \in Nodes |-> NotReset]

\* the state before any handler has run on a document that was never synced
InitWith(documents, environments, builds, samples) ==
    /\ InitAround(documents, environments, builds, samples)
    /\ pluginData = [n \in Nodes |-> EmptyString]

\* a deployment with no project board configured
NoBoard == {e \in Environments : e.projectName = "" /\ e.projectNumber = 0}
Init == InitWith(Documents, NoBoard, {"timeout"}, {NoSample})

(***************************************************************************)
(* syncQaAnnotations.                                                      *)
(***************************************************************************)
\* getQaCategory(): the id of the category labelled "qa", or none
CategoryAnswers == {NoCategory, QaCategoryId}

\* faulty precondition checks that go on to collect when no QA category is found
PreconditionFailureSkipsCategory(st, qaCategory) ==
    IF st.endpoint = "" THEN <<MissingEndpoint>>
    ELSE IF st.owner = "" \/ st.repo = "" THEN <<MissingOwnerRepo>>
    ELSE IF st.fileKey = "" THEN <<MissingFileKey>>
    ELSE <<>>

\* the precondition checks of lines 102-131, in their order: the error posted, if any
PreconditionFailure(st, qaCategory) ==
    IF st.endpoint = "" THEN <<MissingEndpoint>>
    ELSE IF st.owner = "" \/ st.repo = "" THEN <<MissingOwnerRepo>>
    ELSE IF st.fileKey = "" THEN <<MissingFileKey>>
    ELSE IF qaCategory = NoCategory THEN <<MissingCategory>>
    ELSE <<>>

Post(r, message) == ui' = [ui EXCEPT ![r] = Append(@, message)]

\* the run ends: what the next run can know of it
Finish(r, reconciled, allOk) ==
    /\ pc' = [pc EXCEPT ![r] = "done"]
    /\ history' = [reconciled |-> reconciled /\ prev[r].clean,
                   allOk |-> allOk /\ prev[r].clean,
                   scanAllPages |-> settings[r].scanAllPages, clean |-> TRUE]

\* lines 44-56 and 101-143: a 'sync-qa' message starts a handler with fresh
\* locals; the precondition checks and the set-up of the collect loop.  A
\* request the previous handler left unhandled stays on its way to the service.
StartSync(r, st, qaCategory) ==
    /\ pc[r] \in {"idle", "done"}
    /\ started < MaxRuns
    /\ started' = started + 1
    /\ settings' = [settings EXCEPT ![r] = st]
    /\ prev' = [prev EXCEPT ![r] = history]
    /\ pos' = [pos EXCEPT ![r] = 1]
    /\ issues' = [issues EXCEPT ![r] = <<>>]
    /\ nodeMap' = [nodeMap EXCEPT ![r] = {}]
    /\ promise' = [promise EXCEPT ![r] = "none"]
    /\ timer' = [timer EXCEPT ![r] = "off"]
    /\ fetchState' = [fetchState EXCEPT ![r] = "none"]
    /\ netStage' = [netStage EXCEPT ![r] = "none"]
    /\ request' = [request EXCEPT ![r] = NoRequest]
    /\ response' = [response EXCEPT ![r] = NoResponse]
    /\ writes' = [writes EXCEPT ![r] = <<>>]
    /\ answers' = [answers EXCEPT ![r] = NoAnswers]
    /\ elapsed' = [elapsed EXCEPT ![r] = FALSE]
    /\ stale' = IF netStage[r] = "request" THEN stale \cup {request[r]} ELSE stale
    /\ calls' = [calls EXCEPT ![r] = NoCalls]
    /\ LET failure == PreconditionFailure(st, qaCategory)
           \* getQaCategory() is reached only past the checks of the settings
           asked == st.endpoint # "" /\ st.owner # "" /\ st.repo # "" /\ st.fileKey # ""
       IN  /\ ui' = [ui EXCEPT ![r] = failure]
           /\ pc' = [pc EXCEPT ![r] = IF failure = <<>> THEN "collect" ELSE "done"]
           /\ history' = IF failure = <<>> THEN history ELSE NoHistory
           /\ category' = [category EXCEPT ![r] = IF asked THEN qaCategory ELSE NoCategory]
    /\ cleared' = [n \in Nodes |->
                     IF ~cleared[n].over THEN cleared[n]
                     ELSE IF cleared[n].followed /\ cleared[n].written THEN NotReset
                     ELSE [cleared[n] EXCEPT !.followed = TRUE]]
    /\ UNCHANGED <<doc, env, pluginData, tracker, build, sample, svc>>

\* the request item built for an annotation of a node
IssueRequestItem(n, annotation) ==
    [title |-> "[QA] Fix",
     body |-> buildIssueBody(annotation.text, n),
     labels |-> <<"QA">>,
     nodeId |-> n,
     signature |-> SignatureOf(n, annotation.categoryId, annotation.text)]

\* a node that is written is no longer as the reset left it
WrittenAgain ==
    cleared' = [n \in Nodes |->
                   IF pluginData'[n] # pluginData[n] /\ cleared[n].over
                   THEN [cleared[n] EXCEPT !.written = TRUE]
                   ELSE cleared[n]]

\* a faulty collect loop that records an annotation as synced when it puts it
\* into the batch
CollectStepMarksEagerly(r) ==
    /\ pc[r] = "collect"
    /\ LET trav == Traversal(doc, settings[r], 1, 1)
       IN  /\ pos[r] <= Len(trav)
           /\ LET n == trav[pos[r]].node
                  annotation == doc[n][trav[pos[r]].index]
                  item == IssueRequestItem(n, annotation)
                  after == markSignatureSynced(pluginData[n], item.signature)
              IN  IF annotation.categoryId # category[r]
                  THEN UNCHANGED <<issues, nodeMap, pluginData, writes>>
                  ELSE IF settings[r].skipSynced /\ isSignatureSynced(pluginData[n], item.signature)
                  THEN UNCHANGED <<issues, nodeMap, pluginData, writes>>
                  ELSE /\ issues' = [issues EXCEPT ![r] = Append(@, item)]
                       /\ nodeMap' = [nodeMap EXCEPT ![r] = @ \cup {n}]
                       /\ pluginData' = [pluginData EXCEPT ![n] = after]
                       /\ writes' = [writes EXCEPT ![r] =
                                        IF after # pluginData[n]
                                        THEN Append(@, <<n, item.signature>>) ELSE @]
    /\ pos' = [pos EXCEPT ![r] = @ + 1]
    /\ UNCHANGED <<doc, env, started, pc, settings, promise, timer, fetchState, netStage,
                   request, response, ui, tracker, stale, history, prev, answers, elapsed,
                   build, category, calls, sample, svc>>
    /\ WrittenAgain

\* lines 159-192: one pass of the loop over the annotations in scope
CollectStep(r) ==
    /\ pc[r] = "collect"
    /\ LET trav == Traversal(doc, settings[r], 1, 1)
       IN  /\ pos[r] <= Len(trav)
           /\ LET n == trav[pos[r]].node
                  annotation == doc[n][trav[pos[r]].index]
                  item == IssueRequestItem(n, annotation)
              IN  IF annotation.categoryId # category[r]
                  THEN UNCHANGED <<issues, nodeMap>>
                  ELSE IF settings[r].skipSynced /\ isSignatureSynced(pluginData[n], item.signature)
                  THEN UNCHANGED <<issues, nodeMap>>
                  ELSE /\ issues' = [issues EXCEPT ![r] = Append(@, item)]
                       /\ nodeMap' = [nodeMap EXCEPT ![r] = @ \cup {n}]
    /\ pos' = [pos EXCEPT ![r] = @ + 1]
    /\ UNCHANGED <<doc, env, pluginData, started, pc, settings, promise, timer, fetchState,
                   netStage, request, response, ui, tracker, stale, writes, history, prev, answers, elapsed, build, category, calls, sample, svc, cleared>>

\* the request the plugin sends: POST, no secret header, {owner, repo, issues}
RequestOf(st, batch) ==
    [method |-> "POST", secret |-> "", parses |-> TRUE,
     payload |-> [owner |-> st.owner, repo |-> st.repo, isArray |-> TRUE, issues |-> batch]]

\* a faulty send that awaits the platform fetch itself, with no timer
SendWithoutTimer(r) ==
    /\ pc[r] = "collect"
    /\ pos[r] > Len(Traversal(doc, settings[r], 1, 1))
    /\ IF issues[r] = <<>>
       THEN /\ Post(r, NothingToSend)
            /\ Finish(r, FALSE, FALSE)
            /\ UNCHANGED <<promise, timer, fetchState, netStage, request>>
       ELSE /\ pc' = [pc EXCEPT ![r] = "await"]
            /\ request' = [request EXCEPT ![r] = RequestOf(settings[r], issues[r])]
            /\ promise' = [promise EXCEPT ![r] = "pending"]
            /\ timer' = [timer EXCEPT ![r] = "off"]
            /\ fetchState' = [fetchState EXCEPT ![r] = "pending"]
            /\ netStage' = [netStage EXCEPT ![r] = "request"]
            /\ UNCHANGED <<ui, history>>
    /\ UNCHANGED <<doc, env, pluginData, started, settings, pos, issues, nodeMap, response,
                   tracker, stale, writes, prev, answers, elapsed, build, category, calls,
                   sample, svc, cleared>>

\* lines 196-217 and fetchWithTimeout's set-up: the empty batch ends the run,
\* any other batch is sent, in part_000 with the timer armed (part_001, lines
\* 163-182, awaits the fetch itself)
Send(r) ==
    /\ pc[r] = "collect"
    /\ pos[r] > Len(Traversal(doc, settings[r], 1, 1))
    /\ IF issues[r] = <<>>
       THEN /\ Post(r, NothingToSend)
            /\ Finish(r, FALSE, FALSE)
            /\ UNCHANGED <<promise, timer, fetchState, netStage, request>>
       ELSE /\ pc' = [pc EXCEPT ![r] = "await"]
            /\ request' = [request EXCEPT ![r] = RequestOf(settings[r], issues[r])]
            /\ promise' = [promise EXCEPT ![r] = "pending"]
            /\ timer' = [timer EXCEPT ![r] = IF build = "timeout" THEN "armed" ELSE "off"]
            /\ fetchState' = [fetchState EXCEPT ![r] = "pending"]
            /\ netStage' = [netStage EXCEPT ![r] = "request"]
            /\ UNCHANGED <<ui, history>>
    /\ UNCHANGED <<doc, env, pluginData, started, settings, pos, issues, nodeMap, response,
                   tracker, stale, writes, prev, answers, elapsed, build, category, calls, sample, svc, cleared>>

RECURSIVE CountIn(_, _)
CountIn(list, x) ==
    IF list = <<>> THEN 0
    ELSE (IF Head(list) = x THEN 1 ELSE 0) + CountIn(Tail(list), x)

\* the answers the service can give to a request, with the issues it created
Handlings(req) ==
    UNION {{[handled |-> HandleRequest(req, env, projectId, ocs),
             answers |-> IF TopLevelStatus(req, env) # 0 THEN NoAnswers
                         ELSE [projectId |-> projectId,
                               ocs |-> [i \in 1..Len(req.payload.issues) |->
                                          IF MissingTitleOrBody(req.payload.issues[i])
                                          THEN NotConsulted ELSE ocs[i]]]] :
               ocs \in [1..Len(req.payload.issues) -> ItemOutcomes(projectId)]} :
           projectId \in {ResolveProject(req, env, lk) : lk \in Lookups}}

Created(issuedBodies) == [b \in Bodies |-> tracker[b] + CountIn(issuedBodies, b)]

\* the service handles the request of run r
ServiceHandle(r) ==
    /\ netStage[r] = "request"
    /\ \E h \in Handlings(request[r]) :
          /\ response' = [response EXCEPT ![r] = h.handled.response]
          /\ tracker' = Created(h.handled.issuedBodies)
          /\ answers' = [answers EXCEPT ![r] = h.answers]
          /\ calls' = [calls EXCEPT ![r] = h.handled.calls]
    /\ netStage' = [netStage EXCEPT ![r] = "response"]
    /\ UNCHANGED <<doc, env, pluginData, started, pc, settings, pos, issues, nodeMap, promise,
                   timer, fetchState, request, ui, stale, writes, history, prev, elapsed, build,
                   category, sample, svc, cleared>>

\* the service handles a request whose handler is gone: nobody reads the answer
ServiceHandleStale(req) ==
    /\ req \in stale
    /\ stale' = stale \ {req}
    /\ \E issued \in {h.handled.issuedBodies : h \in Handlings(req)} :
          tracker' = Created(issued)
    /\ UNCHANGED <<doc, env, pluginData, started, pc, settings, pos, issues, nodeMap, promise,
                   timer, fetchState, netStage, request, response, ui, writes, history, prev, answers, elapsed, build, category, calls, sample, svc, cleared>>

\* `!result.nodeId || !result.signature`
MissingKey(result) ==
    result.nodeId = Undefined \/ result.nodeId = <<>>
        \/ result.signature = Undefined \/ result.signature = <<>>

\* a faulty reconcile test that marks a result whatever its status
MarksAnyStatus(nm, result) ==
    /\ ~MissingKey(result)
    /\ result.nodeId \in nm

\* whether the reconcile loop marks this result
Marks(nm, result) ==
    /\ ~MissingKey(result)
    /\ result.nodeId \in nm
    /\ result.status # 0 /\ result.status >= 200 /\ result.status < 300

RECURSIVE ReconcileFromForgets(_, _, _, _)
\* a faulty reconcile loop that stores each confirmed signature alone, dropping
\* what the node's record held
ReconcileFromForgets(pd, nm, results, i) ==
    IF i > Len(results) THEN [pluginData |-> pd, createdCount |-> 0, stored |-> <<>>]
    ELSE LET result == results[i]
         IN  IF ~Marks(nm, result) THEN ReconcileFromForgets(pd, nm, results, i + 1)
             ELSE LET before == pd[result.nodeId]
                      after == markSignatureSynced(EmptyString, result.signature)
                      rest == ReconcileFromForgets([pd EXCEPT ![result.nodeId] = after],
                                                   nm, results, i + 1)
                  IN  [pluginData |-> rest.pluginData,
                       createdCount |-> rest.createdCount + 1,
                       stored |-> (IF after # before
                                   THEN <<<<result.nodeId, result.signature>>>>
                                   ELSE <<>>) \o rest.stored]

RECURSIVE ReconcileFromCountsWrites(_, _, _, _)
\* a faulty reconcile loop that counts a result as created only when it added a
\* signature to the node's record
ReconcileFromCountsWrites(pd, nm, results, i) ==
    IF i > Len(results) THEN [pluginData |-> pd, createdCount |-> 0, stored |-> <<>>]
    ELSE LET result == results[i]
         IN  IF ~Marks(nm, result) THEN ReconcileFromCountsWrites(pd, nm, results, i + 1)
             ELSE LET before == pd[result.nodeId]
                      after == markSignatureSynced(before, result.signature)
                      rest == ReconcileFromCountsWrites([pd EXCEPT ![result.nodeId] = after],
                                                        nm, results, i + 1)
                  IN  [pluginData |-> rest.pluginData,
                       createdCount |-> rest.createdCount + (IF after # before THEN 1 ELSE 0),
                       stored |-> (IF after # before
                                   THEN <<<<result.nodeId, result.signature>>>>
                                   ELSE <<>>) \o rest.stored]

RECURSIVE ReconcileFrom(_, _, _, _)
\* lines 232-240: the loop over results[i..], from plugin data pd
ReconcileFrom(pd, nm, results, i) ==
    IF i > Len(results) THEN [pluginData |-> pd, createdCount |-> 0, stored |-> <<>>]
    ELSE LET result == results[i]
         IN  IF ~Marks(nm, result) THEN ReconcileFrom(pd, nm, results, i + 1)
             ELSE LET before == pd[result.nodeId]
                      after == markSignatureSynced(before, result.signature)
                      rest == ReconcileFrom([pd EXCEPT ![result.nodeId] = after],
                                            nm, results, i + 1)
                  IN  [pluginData |-> rest.pluginData,
                       createdCount |-> rest.createdCount + 1,
                       stored |-> (IF after # before
                                   THEN <<<<result.nodeId, result.signature>>>>
                                   ELSE <<>>) \o rest.stored]

AllOk(results) == \A i \in 1..Len(results) : Is2xx(results[i].status)

\* a faulty reconcile that records a batch only when every one of its items succeeded
OnResponseAllOrNothing(r, resp) ==
    IF ~Is2xx(resp.status)
    THEN /\ Post(r, ServerError(resp.status, resp.text))
         /\ Finish(r, FALSE, FALSE)
         /\ UNCHANGED <<pluginData, writes>>
    ELSE LET rec == IF AllOk(resp.results)
                    THEN ReconcileFrom(pluginData, nodeMap[r], resp.results, 1)
                    ELSE [pluginData |-> pluginData, createdCount |-> 0, stored |-> <<>>]
         IN  /\ pluginData' = rec.pluginData
             /\ writes' = [writes EXCEPT ![r] = @ \o rec.stored]
             /\ Post(r, Done(rec.createdCount, resp.failed))
             /\ Finish(r, TRUE, AllOk(resp.results))

\* lines 219-245: what the handler does with the response it awaited
OnResponse(r, resp) ==
    IF ~Is2xx(resp.status)
    THEN /\ Post(r, ServerError(resp.status, resp.text))
         /\ Finish(r, FALSE, FALSE)
         /\ UNCHANGED <<pluginData, writes>>
    ELSE LET rec == ReconcileFrom(pluginData, nodeMap[r], resp.results, 1)
         IN  /\ pluginData' = rec.pluginData
             /\ writes' = [writes EXCEPT ![r] = @ \o rec.stored]
             /\ Post(r, Done(rec.createdCount, resp.failed))
             /\ Finish(r, TRUE, AllOk(resp.results))

\* a faulty catch block that records the whole batch as synced before reporting
OnErrorMarksBatch(r, message) ==
    LET assumed == [i \in 1..Len(issues[r]) |->
                       [nodeId |-> issues[r][i].nodeId,
                        signature |-> issues[r][i].signature, status |-> 201]]
        rec == ReconcileFrom(pluginData, nodeMap[r], assumed, 1)
    IN  /\ Post(r, IF build = "timeout" /\ message = "Timeout" THEN TimeoutMessage
                   ELSE RequestFailed(message))
        /\ Finish(r, FALSE, FALSE)
        /\ pluginData' = rec.pluginData
        /\ writes' = [writes EXCEPT ![r] = @ \o rec.stored]

\* lines 246-251: the catch block (part_001, lines 211-213, has one message)
OnError(r, message) ==
    /\ Post(r, IF build = "timeout" /\ message = "Timeout" THEN TimeoutMessage
               ELSE RequestFailed(message))
    /\ Finish(r, FALSE, FALSE)
    /\ UNCHANGED <<pluginData, writes>>

ClearTimeout(r) == timer' = [timer EXCEPT ![r] = IF @ = "armed" THEN "cleared" ELSE @]

\* a faulty fetchWithTimeout whose response continuation runs even after the
\* timer has already rejected
ResponseArrivesUnguarded(r) ==
    /\ netStage[r] = "response"
    /\ fetchState[r] = "pending"
    /\ fetchState' = [fetchState EXCEPT ![r] = "resolved"]
    /\ ClearTimeout(r)
    /\ promise' = [promise EXCEPT ![r] = "resolved"]
    /\ OnResponse(r, response[r])
    /\ UNCHANGED <<doc, env, started, settings, pos, issues, nodeMap, netStage, request,
                   response, tracker, stale, prev, answers, elapsed, build, category, calls, sample, svc>>
    /\ WrittenAgain

\* fetch resolves: clearTimeout, resolve(response); the awaiting handler goes on
\* only if the promise was still pending
ResponseArrives(r) ==
    /\ netStage[r] = "response"
    /\ fetchState[r] = "pending"
    /\ fetchState' = [fetchState EXCEPT ![r] = "resolved"]
    /\ ClearTimeout(r)
    /\ IF promise[r] = "pending"
       THEN /\ promise' = [promise EXCEPT ![r] = "resolved"]
            /\ OnResponse(r, response[r])
       ELSE UNCHANGED <<promise, pluginData, writes, ui, pc, history>>
    /\ UNCHANGED <<doc, env, started, settings, pos, issues, nodeMap, netStage, request,
                   response, tracker, stale, prev, answers, elapsed, build, category, calls, sample, svc>>
    /\ WrittenAgain

\* the messages of the errors the platform fetch rejects with
NetworkErrors == {"Failed to fetch"}

\* fetch rejects: clearTimeout, reject(error)
NetworkFails(r, message) ==
    /\ fetchState[r] = "pending"
    /\ fetchState' = [fetchState EXCEPT ![r] = "rejected"]
    /\ ClearTimeout(r)
    /\ IF promise[r] = "pending"
       THEN /\ promise' = [promise EXCEPT ![r] = "rejected"]
            /\ OnError(r, message)
       ELSE UNCHANGED <<promise, pluginData, writes, ui, pc, history>>
    /\ UNCHANGED <<doc, env, started, settings, pos, issues, nodeMap, netStage, request,
                   response, tracker, stale, prev, answers, elapsed, build, category, calls, sample, svc>>
    /\ WrittenAgain

\* the timer callback: reject(new Error('Timeout'))
TimerFires(r) ==
    /\ timer[r] = "armed"
    /\ timer' = [timer EXCEPT ![r] = "fired"]
    /\ elapsed' = [elapsed EXCEPT ![r] = TRUE]
    /\ IF promise[r] = "pending"
       THEN /\ promise' = [promise EXCEPT ![r] = "rejected"]
            /\ OnError(r, "Timeout")
       ELSE UNCHANGED <<promise, pluginData, writes, ui, pc, history>>
    /\ UNCHANGED <<doc, env, started, settings, pos, issues, nodeMap, fetchState, netStage,
                   request, response, tracker, stale, prev, answers, build, category, calls, sample, svc>>
    /\ WrittenAgain

\* part_001 has no timer: 20000 ms pass and the handler goes on awaiting the fetch
BoundElapses(r) ==
    /\ build = "plain"
    /\ pc[r] = "await"
    /\ fetchState[r] = "pending"
    /\ ~elapsed[r]
    /\ elapsed' = [elapsed EXCEPT ![r] = TRUE]
    /\ UNCHANGED <<doc, env, pluginData, started, pc, settings, pos, issues, nodeMap, promise,
                   timer, fetchState, netStage, request, response, ui, tracker, stale, writes,
                   history, prev, answers, build, category, calls, sample, svc, cleared>>

(***************************************************************************)
(* resetSyncedAnnotations.                                                 *)
(***************************************************************************)
\* what the reset asked for with settings st removes from a node
Removed(st, n) ==
    IF ~InScope(st, n) THEN cleared[n]
    ELSE [over |-> TRUE,
          removed |-> IF Falsy(pluginData[n]) /\ cleared[n].over THEN cleared[n].removed
                      ELSE pluginData[n],
          followed |-> FALSE, written |-> FALSE]

\* a faulty reset that goes over the current page whatever scanAllPages says
ResetSyncedCurrentPageOnly(st) ==
    /\ \E n \in Nodes : InScope(st, n) /\ ~Falsy(pluginData[n])
    /\ pluginData' = [n \in Nodes |->
                        IF PageOf(n) = CurrentPage /\ ~Falsy(pluginData[n]) THEN EmptyString
                        ELSE pluginData[n]]
    /\ cleared' = [n \in Nodes |-> Removed(st, n)]
    /\ history' = NoHistory
    /\ prev' = [r \in Runs |-> Interrupted]
    /\ UNCHANGED <<doc, env, started, pc, settings, pos, issues, nodeMap, promise, timer,
                   fetchState, netStage, request, response, ui, tracker, stale, writes,
                   answers, elapsed, build, category, calls, sample, svc>>

\* lines 301-338; a reset that finds no node with data changes nothing
ResetSynced(st) ==
    /\ \E n \in Nodes : InScope(st, n) /\ ~Falsy(pluginData[n])
    /\ pluginData' = [n \in Nodes |->
                        IF InScope(st, n) /\ ~Falsy(pluginData[n]) THEN EmptyString
                        ELSE pluginData[n]]
    /\ cleared' = [n \in Nodes |-> Removed(st, n)]
    /\ history' = NoHistory
    /\ prev' = [r \in Runs |-> Interrupted]
    /\ UNCHANGED <<doc, env, started, pc, settings, pos, issues, nodeMap, promise, timer,
                   fetchState, netStage, request, response, ui, tracker, stale, writes,
                   answers, elapsed, build, category, calls, sample, svc>>

(***************************************************************************)
(* The specifications.  Handlers are started one after another, on run 1.  *)
(***************************************************************************)
\* what both plugin sources do, and the service
Common(R) ==
    \/ \E r \in R, st \in SettingsChoices, c \in CategoryAnswers : StartSync(r, st, c)
    \/ \E r \in R : CollectStep(r)
    \/ \E r \in R : Send(r)
    \/ \E r \in R : ServiceHandle(r)
    \/ \E req \in stale : ServiceHandleStale(req)
    \/ \E r \in R : ResponseArrives(r)
    \/ \E r \in R, m \in NetworkErrors : NetworkFails(r, m)

\* part_000
Next ==
    \/ Common({1})
    \/ TimerFires(1)
    \/ \E scanAll \in BOOLEAN : ResetSynced([NoSettings EXCEPT !.scanAllPages = scanAll])

Spec == Init /\ [][Next]_vars

\* part_001: no timer, no reset handler
InitPlain ==
    InitWith({d \in Documents : d[Node21] = <<>>}, {e \in NoBoard : e.secret = ""}, {"plain"},
             {NoSample})

NextPlain ==
    \/ Common({1})
    \/ BoundElapses(1)

SpecPlain == InitPlain /\ [][NextPlain]_vars

\* part_000 against a deployment with a project board configured
BoardDocuments ==
    {d \in Documents : d[Node21] = <<>> /\ \A i \in 1..Len(d[Node12]) :
                          d[Node12][i].categoryId = QaCategoryId /\ d[Node12][i].text # <<66, 66>>}

InitBoard == InitWith(BoardDocuments, Environments \ NoBoard, {"timeout"}, {NoSample})

SpecBoard == InitBoard /\ [][Next]_vars

\* part_000 with two 'sync-qa' handlers in progress at once: a second message
\* arrives while the first handler awaits
ConcurrentDocuments ==
    {d \in Documents : d[Node21] = <<>> /\ \A i \in 1..Len(d[Node12]) :
                          d[Node12][i].categoryId = QaCategoryId /\ d[Node12][i].text # <<66, 66>>}

InitConcurrent ==
    InitWith(ConcurrentDocuments, {e \in NoBoard : e.token /\ e.secret = ""}, {"timeout"},
             {NoSample})

NextConcurrent ==
    \/ Common(Runs)
    \/ \E r \in Runs : TimerFires(r)

SpecConcurrent == InitConcurrent /\ [][NextConcurrent]_vars

\* part_000 with what the plugin's own scheduling guarantees: a handler
\* suspended at an await of the platform (the collect loop, the step to the
\* send) is resumed, and an armed timer that is not cleared fires.  Nothing is
\* assumed of the service, the tracker or the network.
InitLive ==
    InitWith({d \in Documents : d[Node21] = <<>>}, {e \in NoBoard : e.secret = ""},
             {"timeout"}, {NoSample})

SpecLive ==
    /\ InitLive
    /\ [][Next]_vars
    /\ WF_vars(CollectStep(1))
    /\ WF_vars(Send(1))
    /\ WF_vars(TimerFires(1))

\* part_000 opened on a document that an earlier session has synced: every
\* node holds the record of the QA annotations it had then, which are all its
\* annotations but (when it has two) the last
RECURSIVE RecordOf(_, _, _)
RecordOf(n, annotations, k) ==
    IF k = 0 THEN EmptyString
    ELSE IF annotations[k].categoryId # QaCategoryId THEN RecordOf(n, annotations, k - 1)
    ELSE markSignatureSynced(RecordOf(n, annotations, k - 1),
                             SignatureOf(n, annotations[k].categoryId, annotations[k].text))

SyncedEarlier(d) ==
    [n \in Nodes |-> RecordOf(n, d[n], IF Len(d[n]) = 2 THEN 1 ELSE Len(d[n]))]

RecordedDocuments ==
    {d \in Documents : \A n \in Nodes : \A i \in 1..Len(d[n]) :
                          d[n][i].categoryId = QaCategoryId /\ d[n][i].text # <<66, 66>>}

InitRecorded ==
    /\ InitAround(RecordedDocuments, {e \in NoBoard : e.token /\ e.secret = ""}, {"timeout"},
                  {NoSample})
    /\ pluginData = SyncedEarlier(doc)

SpecRecorded == InitRecorded /\ [][Next]_vars

\* the service alone, posted one request by any client
ArbitraryItems ==
    LET signature == SignatureOf(Node12, QaCategoryId, <<65, 97>>)
        body == buildIssueBody(<<65, 97>>, Node12)
        item(title, text, nodeId, sig) ==
            [title |-> title, body |-> text, labels |-> <<"QA">>, nodeId |-> nodeId,
             signature |-> sig]
    IN  {item("[QA] Fix", body, Node12, signature),
         item("[QA] Fix", body, Undefined, Undefined),
         item("", body, Node12, signature),
         item("[QA] Fix", EmptyBody, Node12, Undefined),
         item("", EmptyBody, Undefined, signature)}

Payload(owner, isArray, batch) ==
    [owner |-> owner, repo |-> "r", isArray |-> isArray, issues |-> batch]

ArbitraryRequests ==
    {[method |-> "POST", secret |-> "", parses |-> TRUE, payload |-> Payload("o", TRUE, batch)] :
        batch \in SeqsUpTo(ArbitraryItems, MaxItems)}
    \cup {[method |-> m, secret |-> x, parses |-> TRUE, payload |-> Payload("o", TRUE, <<item>>)] :
            m \in {"POST", "GET", "OPTIONS"}, x \in {"", "s3", "guess"},
            item \in {i \in ArbitraryItems : ~MissingTitleOrBody(i) /\ i.nodeId = Node12}}
    \cup {[method |-> "POST", secret |-> "", parses |-> FALSE, payload |-> Payload("", FALSE, <<>>)],
          [method |-> "POST", secret |-> "", parses |-> TRUE, payload |-> Payload("", TRUE, <<>>)],
          [method |-> "POST", secret |-> "", parses |-> TRUE, payload |-> Payload("o", FALSE, <<>>)]}

Submit(r, req) ==
    /\ pc[r] = "idle"
    /\ netStage[r] = "none"
    /\ request' = [request EXCEPT ![r] = req]
    /\ netStage' = [netStage EXCEPT ![r] = "request"]
    /\ UNCHANGED <<doc, env, pluginData, started, pc, settings, pos, issues, nodeMap, promise,
                   timer, fetchState, response, ui, tracker, stale, writes, history, prev,
                   answers, elapsed, build, category, calls, sample, svc, cleared>>

InitService == InitWith({[n \in Nodes |-> <<>>]}, ServiceEnvironments, {"timeout"}, {NoSample})

NextService ==
    \/ \E req \in ArbitraryRequests : Submit(1, req)
    \/ ServiceHandle(1)

SpecService == InitService /\ [][NextService]_vars

(***************************************************************************)
(* The service's handler followed one await at a time: the calls it makes  *)
(* to the tracker, each from its start to its return.                      *)
(***************************************************************************)
\* deployments with a board referred to by name, by number, by both or not at all
StepEnvironments ==
    {[token |-> TRUE, secret |-> "", projectName |-> name, projectNumber |-> number] :
        name \in {"", "Board"}, number \in {0, 7}}

\* lines 52-64: the reference the board is resolved by (projectOwner falls back
\* to owner, which the top-level checks found non-empty)
ProjectReference(e) ==
    IF e.projectNumber # 0 THEN "number"
    ELSE IF e.projectName # "" THEN "name"
    ELSE "none"

\* the boards a scope can hold: one titled as configured and one whose title
\* differs from it in case only
BoardOf(scope, title) ==
    [id |-> IF scope = "organization"
            THEN (IF title = "Board" THEN "PVT_org" ELSE "PVT_org_lowercase")
            ELSE (IF title = "Board" THEN "PVT_user" ELSE "PVT_user_lowercase"),
     title |-> title]

\* what a call to the tracker returned: it threw, or answered with a status,
\* a body that parsed to the expected data or not, and (lookups) project nodes
Outcome(threw, status, data, nodes) ==
    [threw |-> threw, status |-> status, data |-> data, nodes |-> nodes]
NoOutcome == Outcome(FALSE, 0, FALSE, <<>>)

\* the answers to a lookup: projectsV2(first: 50) lists the scope's boards,
\* projectV2(number:) gives the board of that number, whatever its title
LookupAnswers(by, scope) ==
    LET exact == BoardOf(scope, "Board")
        lower == BoardOf(scope, "board")
    IN  {Outcome(TRUE, 0, FALSE, <<>>), Outcome(FALSE, 401, FALSE, <<>>),
         Outcome(FALSE, 200, TRUE, <<>>), Outcome(FALSE, 200, TRUE, <<exact>>),
         Outcome(FALSE, 200, TRUE, <<lower>>)}
        \cup (IF by = "name" THEN {Outcome(FALSE, 200, TRUE, <<lower, exact>>)} ELSE {})

\* nodes.find((node) => node.title === projectName)?.id, and projectV2?.id
MatchIn(by, nodes, projectName) ==
    IF by = "number" THEN (IF nodes = <<>> THEN NullId ELSE nodes[1].id)
    ELSE LET hits == {k \in 1..Len(nodes) : nodes[k].title = projectName}
         IN  IF hits = {} THEN NullId
             ELSE nodes[CHOOSE k \in hits : \A m \in hits : k <= m].id

\* a faulty resolution that never asks in the user scope
AfterLookupOrganizationOnly(scope, by, answer, projectName) ==
    IF answer.threw THEN [consultUser |-> FALSE, projectId |-> NullId]
    ELSE [consultUser |-> FALSE,
          projectId |-> IF Is2xx(answer.status) THEN MatchIn(by, answer.nodes, projectName)
                        ELSE NullId]

\* fetchProjectId / fetchProjectIdByNumber after one lookup returned: a lookup
\* that threw ends the resolution in the handler's catch; a lookup that was not
\* ok gives null data; the user scope is asked when the organization gave no id
AfterLookup(scope, by, answer, projectName) ==
    IF answer.threw THEN [consultUser |-> FALSE, projectId |-> NullId]
    ELSE LET id == IF Is2xx(answer.status) THEN MatchIn(by, answer.nodes, projectName)
                   ELSE NullId
         IN  IF id # NullId THEN [consultUser |-> FALSE, projectId |-> id]
             ELSE [consultUser |-> scope = "organization", projectId |-> NullId]

\* a call to the tracker: the creation or the attachment of an item, or a
\* lookup in a scope by the query of a reference
Call(kind, scope, item) == [kind |-> kind, scope |-> scope, item |-> item, by |-> "none"]
LookupCall(by, scope) == [kind |-> "lookup", scope |-> scope, item |-> 0, by |-> by]

\* a call to the tracker starts, and returns
StartCall(s, c) ==
    [s EXCEPT !.inflight = @ \cup {c},
              !.log = Append(@, [ev |-> "start", call |-> c, outcome |-> NoOutcome])]
EndCall(s, c, outcome) ==
    [s EXCEPT !.inflight = @ \ {c},
              !.log = Append(@, [ev |-> "end", call |-> c, outcome |-> outcome])]

RECURSIVE RunLoopInParallel(_, _)
\* a faulty item loop that starts the creation calls of all the items left
\* before awaiting any of them
RunLoopInParallel(s, issueList) ==
    IF s.i > Len(issueList)
    THEN [s EXCEPT !.phase = IF s.inflight = {} THEN "respond" ELSE "create"]
    ELSE IF MissingTitleOrBody(issueList[s.i])
    THEN LET one == ProcessItem(issueList[s.i], s.projectId, NotConsulted)
         IN  RunLoopInParallel([s EXCEPT !.i = @ + 1, !.results = Append(@, one.result),
                                         !.failed = @ + one.failed], issueList)
    ELSE RunLoopInParallel([StartCall(s, Call("create", "", s.i)) EXCEPT !.i = @ + 1],
                           issueList)

RECURSIVE RunLoop(_, _)
\* lines 66-100 and 133: the loop from item s.i up to its next await; an item
\* without title or body is pushed as failed and the loop goes on; the first
\* other item has its creation call started; past the last item the handler responds
RunLoop(s, issueList) ==
    IF s.i > Len(issueList) THEN [s EXCEPT !.phase = "respond"]
    ELSE IF MissingTitleOrBody(issueList[s.i])
    THEN LET one == ProcessItem(issueList[s.i], s.projectId, NotConsulted)
         IN  RunLoop([s EXCEPT !.i = @ + 1, !.results = Append(@, one.result),
                               !.failed = @ + one.failed], issueList)
    ELSE StartCall([s EXCEPT !.phase = "create"], Call("create", "", s.i))

\* the handler goes on to its next await, or answers 200 (line 133)
Resume(r, s) ==
    IF s.phase = "respond"
    THEN /\ svc' = [s EXCEPT !.phase = "done"]
         /\ response' = [response EXCEPT ![r] =
                            [status |-> 200, text |-> "", created |-> s.created,
                             failed |-> s.failed, results |-> s.results]]
         /\ netStage' = [netStage EXCEPT ![r] = "response"]
    ELSE /\ svc' = s
         /\ UNCHANGED <<response, netStage>>

\* lines 4-64: the handler is invoked; the top-level checks; the first lookup
\* starts when a board is referred to, else the item loop
Receive(r) ==
    /\ netStage[r] = "request"
    /\ svc.phase = "idle"
    /\ LET top == TopLevelStatus(request[r], env)
           by == ProjectReference(env)
       IN  IF top # 0
           THEN /\ svc' = [svc EXCEPT !.phase = "done"]
                /\ response' = [response EXCEPT ![r] =
                                   [status |-> top, text |-> TopLevelError(top), created |-> 0,
                                    failed |-> 0, results |-> <<>>]]
                /\ netStage' = [netStage EXCEPT ![r] = "response"]
           ELSE IF by # "none"
           THEN Resume(r, StartCall([svc EXCEPT !.phase = "lookup", !.by = by],
                                    LookupCall(by, "organization")))
           ELSE Resume(r, RunLoop([svc EXCEPT !.i = 1], request[r].payload.issues))
    /\ UNCHANGED <<doc, env, pluginData, started, pc, settings, pos, issues, nodeMap, promise,
                   timer, fetchState, request, ui, tracker, stale, writes, history, prev,
                   answers, elapsed, build, category, calls, sample, cleared>>

\* a faulty resolution without the try/catch of lines 53-57 and 59-63: a lookup
\* that throws ends the request
LookupReturnsUncaught(r, c, answer) ==
    /\ svc.phase = "lookup"
    /\ c \in svc.inflight
    /\ c.kind = "lookup"
    /\ LET s == EndCall(svc, c, answer)
           after == AfterLookup(c.scope, svc.by, answer, env.projectName)
       IN  IF answer.threw
           THEN /\ svc' = [s EXCEPT !.phase = "done"]
                /\ response' = [response EXCEPT ![r] =
                                   [status |-> 500, text |-> "", created |-> 0,
                                    failed |-> 0, results |-> <<>>]]
                /\ netStage' = [netStage EXCEPT ![r] = "response"]
           ELSE IF after.consultUser
           THEN Resume(r, StartCall(s, LookupCall(svc.by, "user")))
           ELSE Resume(r, RunLoop([s EXCEPT !.projectId = after.projectId, !.i = 1],
                                  request[r].payload.issues))
    /\ UNCHANGED <<doc, env, pluginData, started, pc, settings, pos, issues, nodeMap, promise,
                   timer, fetchState, request, ui, tracker, stale, writes, history, prev,
                   answers, elapsed, build, category, calls, sample, cleared>>

\* lines 52-64 and 172-194: a lookup returns; the user scope is asked next, or
\* the resolution ends and the item loop begins
LookupReturns(r, c, answer) ==
    /\ svc.phase = "lookup"
    /\ c \in svc.inflight
    /\ c.kind = "lookup"
    /\ LET s == EndCall(svc, c, answer)
           after == AfterLookup(c.scope, svc.by, answer, env.projectName)
       IN  IF after.consultUser
           THEN Resume(r, StartCall(s, LookupCall(svc.by, "user")))
           ELSE Resume(r, RunLoop([s EXCEPT !.projectId = after.projectId, !.i = 1],
                                  request[r].payload.issues))
    /\ UNCHANGED <<doc, env, pluginData, started, pc, settings, pos, issues, nodeMap, promise,
                   timer, fetchState, request, ui, tracker, stale, writes, history, prev,
                   answers, elapsed, build, category, calls, sample, cleared>>

\* lines 86-130: the creation call of an item returns; on 2xx with a board
\* resolved and a node_id the attachment call starts (created is counted
\* before it), else the result is pushed and the loop goes on
CreateReturns(r, c, oc) ==
    /\ svc.phase = "create"
    /\ c \in svc.inflight
    /\ c.kind = "create"
    /\ LET issue == request[r].payload.issues[c.item]
           s == EndCall(svc, c, Outcome(oc.threw, oc.status, oc.data, <<>>))
           one == ProcessItem(issue, svc.projectId, [create |-> oc, attach |-> NoAttach])
       IN  /\ tracker' = IF one.issued THEN Created(<<issue.body>>) ELSE tracker
           /\ IF one.issued /\ addIssueToProject(svc.projectId, oc.data, NoAttach).called
              THEN Resume(r, StartCall([s EXCEPT !.phase = "attach", !.created = @ + 1,
                                                 !.pending = oc],
                                       Call("attach", "", c.item)))
              ELSE Resume(r, RunLoop([s EXCEPT !.i = c.item + 1,
                                               !.results = Append(@, one.result),
                                               !.created = @ + one.created,
                                               !.failed = @ + one.failed],
                                     request[r].payload.issues))
    /\ UNCHANGED <<doc, env, pluginData, started, pc, settings, pos, issues, nodeMap, promise,
                   timer, fetchState, request, ui, stale, writes, history, prev,
                   answers, elapsed, build, category, calls, sample, cleared>>

\* lines 120 and 136-170: the attachment call returns; the item's result is
\* pushed with its projectStatus and the loop goes on
AttachReturns(r, c, at) ==
    /\ svc.phase = "attach"
    /\ c \in svc.inflight
    /\ c.kind = "attach"
    /\ LET issue == request[r].payload.issues[c.item]
           s == EndCall(svc, c, Outcome(at.threw, at.status, ~at.errors, <<>>))
           one == ProcessItem(issue, svc.projectId, [create |-> svc.pending, attach |-> at])
       IN  Resume(r, RunLoop([s EXCEPT !.i = c.item + 1,
                                       !.results = Append(@, one.result),
                                       !.pending = NotConsulted.create],
                             request[r].payload.issues))
    /\ UNCHANGED <<doc, env, pluginData, started, pc, settings, pos, issues, nodeMap, promise,
                   timer, fetchState, request, ui, tracker, stale, writes, history, prev,
                   answers, elapsed, build, category, calls, sample, cleared>>

\* the calls a handler can have started
StepCalls ==
    {LookupCall(by, scope) : by \in {"number", "name"}, scope \in {"organization", "user"}}
    \cup {Call(kind, "", item) : kind \in {"create", "attach"}, item \in 1..MaxItems}

InitSteps == InitWith({[n \in Nodes |-> <<>>]}, StepEnvironments, {"timeout"}, {NoSample})

NextSteps ==
    \/ \E req \in ArbitraryRequests : Submit(1, req)
    \/ Receive(1)
    \/ \E c \in StepCalls : \E answer \in LookupAnswers(c.by, c.scope) :
          LookupReturns(1, c, answer)
    \/ \E c \in StepCalls, oc \in CreateOutcomes : CreateReturns(1, c, oc)
    \/ \E c \in StepCalls, at \in AttachOutcomes : AttachReturns(1, c, at)

SpecSteps == InitSteps /\ [][NextSteps]_vars

\* the signature construction alone (lines 162-165), applied to a node id, a
\* category id (absent ids are the empty string) and two annotation texts
SampleChars == {65, 97, 66}
Samples ==
    {[NoSample EXCEPT !.nodeId = n, !.categoryId = c, !.text = t, !.other = o] :
        n \in {<<>>, Node12}, c \in {<<>>, QaCategoryId, <<54620>>},
        t \in SeqsUpTo(SampleChars, MaxLen), o \in SeqsUpTo(SampleChars, MaxLen)}

Sign ==
    /\ sample.signed < MaxRuns
    /\ sample' = [sample EXCEPT
                    !.signature = SignatureOf(sample.nodeId, sample.categoryId, sample.text),
                    !.otherSignature = SignatureOf(sample.nodeId, sample.categoryId, sample.other),
                    !.signed = @ + 1]
    /\ UNCHANGED <<doc, env, pluginData, started, pc, settings, pos, issues, nodeMap, promise,
                   timer, fetchState, netStage, request, response, ui, tracker, stale, writes,
                   history, prev, answers, elapsed, build, category, calls, svc, cleared>>

InitSignature ==
    InitWith({[n \in Nodes |-> <<>>]}, {e \in NoBoard : e.token /\ e.secret = ""}, {"timeout"},
             Samples)

NextSignature == Sign

SpecSignature == InitSignature /\ [][NextSignature]_vars

(***************************************************************************)
(* Properties.                                                             *)
(***************************************************************************)
\* run r's request passed the top-level checks and the item loop answered it
Answered(r) == netStage[r] = "response" /\ response[r].status = 200

\* run r awaited the response, found it ok and reconciled, and no reset has run
\* since it started
JustReconciled(r) ==
    /\ pc[r] = "done"
    /\ promise[r] = "resolved"
    /\ Is2xx(response[r].status)
    /\ prev[r].clean

Recorded(n, signature) == Includes(JSONparse(pluginData[n]), signature)

\* no node carries two QA annotations with the same text
DistinctAnnotations ==
    \A n \in Nodes : \A i, j \in 1..Len(doc[n]) :
        (i # j /\ doc[n][i].categoryId = QaCategoryId /\ doc[n][j].categoryId = QaCategoryId)
            => doc[n][i].text # doc[n][j].text

\* C1: over any sequence of sync runs (timeouts and manual retries included) the
\* tracker creates at most one issue for each distinct annotation.  Stated for the
\* case most favourable to the claim: the annotations differ pairwise and the run
\* in progress skips what is already synced.
C1_AtMostOneIssue ==
    (DistinctAnnotations /\ settings[1].skipSynced) => \A b \in Bodies : tracker[b] <= 1

\* the step adds signature to node n's record
NewlyRecorded(n, signature) ==
    /\ Includes(JSONparse(pluginData'[n]), signature)
    /\ ~Includes(JSONparse(pluginData[n]), signature)

\* the step is run r receiving an ok response that carries a 2xx result for (n, signature)
ConfirmedBy(r, n, signature) ==
    /\ promise[r] = "pending"
    /\ promise'[r] = "resolved"
    /\ netStage[r] = "response"
    /\ Is2xx(response[r].status)
    /\ \E i \in 1..Len(response[r].results) :
          /\ response[r].results[i].nodeId = n
          /\ response[r].results[i].signature = signature
          /\ Is2xx(response[r].results[i].status)

\* C2: a signature enters a node's SyncRecord only in the step in which a run
\* receives a response whose result for that (node, signature) has a 2xx status;
\* no other step (collecting, sending, a request in flight, a timeout, a network
\* failure, a non-2xx response) adds one.
C2_RecordedOnlyAfter2xx ==
    [][\A n \in Nodes : \A k \in 1..Len(JSONparse(pluginData'[n])) :
          NewlyRecorded(n, JSONparse(pluginData'[n])[k])
              => \E r \in Runs : ConfirmedBy(r, n, JSONparse(pluginData'[n])[k])]_vars

C2_Witness ==
    /\ promise[1] = "resolved"
    /\ writes[1] # <<>>
    /\ \E i \in 1..Len(response[1].results) :
          /\ Is2xx(response[1].results[i].status)
          /\ Recorded(response[1].results[i].nodeId, response[1].results[i].signature)

\* run r follows a run that reconciled, with the same scope and no reset since
\* that run started, and skips what is synced
SecondRun(r) ==
    /\ pc[r] # "idle"
    /\ prev[r].reconciled
    /\ prev[r].scanAllPages = settings[r].scanAllPages
    /\ settings[r].skipSynced

C4_ExactlySucceeding ==
    \A r \in Runs : JustReconciled(r) =>
        \A i \in 1..Len(issues[r]) :
            Is2xx(response[r].results[i].status)
                <=> Recorded(issues[r][i].nodeId, issues[r][i].signature)

\* the signatures that matter to node n in a reconcile step of run r
SignaturesAt(r, n) ==
    {JSONparse(pluginData[n])[k] : k \in 1..Len(JSONparse(pluginData[n]))}
        \cup {JSONparse(pluginData'[n])[k] : k \in 1..Len(JSONparse(pluginData'[n]))}
        \cup {issues[r][i].signature : i \in 1..Len(issues[r])}

\* C4 amended: the reconcile of an ok response adds to each SyncRecord exactly the
\* signatures of that node's results with a 2xx status: afterwards a record holds
\* what it held before plus those, so a failed item's signature is in it only if
\* it was recorded before or an item that succeeded carries the same signature.
C4_ReconcileAddsSucceeding ==
    [][\A r \in Runs :
          (promise[r] = "pending" /\ promise'[r] = "resolved" /\ Is2xx(response[r].status))
              => \A n \in Nodes : \A signature \in SignaturesAt(r, n) :
                    Includes(JSONparse(pluginData'[n]), signature)
                        <=> \/ Includes(JSONparse(pluginData[n]), signature)
                            \/ \E i \in 1..Len(issues[r]) :
                                  /\ issues[r][i].nodeId = n
                                  /\ issues[r][i].signature = signature
                                  /\ Is2xx(response[r].results[i].status)]_vars

C4_Witness ==
    /\ JustReconciled(1)
    /\ response[1].created >= 1
    /\ response[1].failed >= 1
    /\ \E i, j \in 1..Len(issues[1]) :
          /\ Is2xx(response[1].results[i].status)
          /\ Recorded(issues[1][i].nodeId, issues[1][i].signature)
          /\ ~Is2xx(response[1].results[j].status)
          /\ ~Recorded(issues[1][j].nodeId, issues[1][j].signature)

\* C5: for a request that passes the top-level checks, created + failed is the
\* number of submitted items and results holds one result per item in input order:
\* result i carries item i's key, and is the validation failure exactly when item i
\* lacks a title or a body.
C5_OneResultPerItem ==
    \A r \in Runs : Answered(r) =>
        LET items == request[r].payload.issues
            resp == response[r]
        IN  /\ resp.created + resp.failed = Len(items)
            /\ Len(resp.results) = Len(items)
            /\ \A i \in 1..Len(items) :
                  /\ resp.results[i].nodeId = items[i].nodeId
                  /\ resp.results[i].signature = items[i].signature
                  /\ (resp.results[i].error = "Missing title or body")
                        <=> MissingTitleOrBody(items[i])

C5_Witness ==
    /\ Answered(1)
    /\ Len(request[1].payload.issues) = MaxItems
    /\ response[1].created >= 1
    /\ response[1].failed >= 1
    /\ MissingTitleOrBody(request[1].payload.issues[1])

KeyOf(x) == <<x.nodeId, x.signature>>
CountKey(list, key) == Cardinality({i \in 1..Len(list) : KeyOf(list[i]) = key})

AttachFails(r, i) ==
    LET oc == answers[r].ocs[i]
    IN  /\ answers[r].projectId # NullId
        /\ ~MissingTitleOrBody(request[r].payload.issues[i])
        /\ ~oc.create.threw
        /\ Is2xx(oc.create.status)
        /\ oc.create.data
        /\ (oc.attach.threw \/ ~Is2xx(oc.attach.status) \/ oc.attach.errors)

\* C7: when an item's creation answers 2xx and the attachment fails (non-2xx,
\* GraphQL errors, or a thrown call), the result keeps the 2xx status and the url,
\* is counted in created, carries projectStatus.error, and the client that
\* reconciles the response records the item's signature.
C7_AttachFailureKeepsSuccess ==
    \A r \in Runs : Answered(r) =>
        /\ response[r].created
              = Cardinality({i \in 1..Len(response[r].results) :
                               Is2xx(response[r].results[i].status)})
        /\ \A i \in 1..Len(answers[r].ocs) : AttachFails(r, i) =>
              LET result == response[r].results[i]
              IN  /\ result.status = answers[r].ocs[i].create.status
                  /\ result.url # ""
                  /\ result.error = ""
                  /\ result.projectStatus.called
                  /\ result.projectStatus.error # ""
                  /\ JustReconciled(r) => Recorded(result.nodeId, result.signature)

C7_Witness ==
    /\ Answered(1)
    /\ JustReconciled(1)
    /\ \E i \in 1..Len(answers[1].ocs) :
          /\ AttachFails(1, i)
          /\ answers[1].ocs[i].attach.errors
          /\ Recorded(response[1].results[i].nodeId, response[1].results[i].signature)
    /\ response[1].created = Len(response[1].results)

\* the step ends run r's send in a transport error or a non-2xx response
EndsInError(r) ==
    /\ promise[r] = "pending"
    /\ \/ promise'[r] = "rejected"
       \/ promise'[r] = "resolved" /\ ~Is2xx(response[r].status)

\* C8: when the send ends in a transport error (timeout or network failure) or in
\* a non-2xx response, the run reports one error, and no SyncRecord is written,
\* in that step or earlier in the run.
C8_ErrorLeavesRecords ==
    [][\A r \in Runs : EndsInError(r) =>
          /\ pluginData' = pluginData
          /\ writes[r] = <<>> /\ writes'[r] = <<>>
          /\ pc'[r] = "done"
          /\ Len(ui'[r]) = 1 /\ ui'[r][1].type = "error"]_vars

C8_Witness ==
    /\ pc[1] = "done"
    /\ promise[1] = "rejected"
    /\ ui[1] = <<TimeoutMessage>>
    /\ writes[1] = <<>>
    /\ \E n \in Nodes : ~Falsy(pluginData[n])
    /\ \E i \in 1..Len(issues[1]) : ~Recorded(issues[1][i].nodeId, issues[1][i].signature)

\* C9: a send whose response has not arrived when 20000 ms have passed ends with
\* the timeout message, and a network failure never produces that message.
C9_TimeoutDistinct ==
    \A r \in Runs :
        /\ elapsed[r] => (pc[r] = "done" /\ ui[r] = <<TimeoutMessage>>)
        /\ (promise[r] = "rejected" /\ ~elapsed[r])
              => \E m \in NetworkErrors : ui[r] = <<RequestFailed(m)>>

\* the single outcome a settled send shows
OutcomeShown(r) ==
    /\ pc'[r] = "done"
    /\ Len(ui'[r]) = 1
    /\ (timer'[r] = "fired") <=> (ui'[r] = <<TimeoutMessage>>)
    /\ promise'[r] = "rejected" => ui'[r][1].type = "error"
    /\ promise'[r] = "resolved" =>
          ui'[r][1].type = (IF Is2xx(response'[r].status) THEN "done" ELSE "error")

\* C10: every send ends in exactly one of success, network error or timeout.
\* While the promise is pending nothing is shown; once it is settled one message
\* is shown, the timeout message exactly when the timer fired; and until the next
\* run starts no later event (a late response, a late failure) changes the
\* outcome, the message or a SyncRecord.
C10_OneOutcome ==
    [][\A r \in Runs :
          /\ (promise'[r] = "pending") <=> (pc'[r] = "await")
          /\ promise'[r] = "pending" => ui'[r] = <<>>
          /\ promise'[r] \in {"resolved", "rejected"} => OutcomeShown(r)
          /\ (promise[r] \in {"resolved", "rejected"} /\ started' = started) =>
                /\ promise'[r] = promise[r]
                /\ ui'[r] = ui[r]
                /\ pc'[r] = pc[r]
                /\ writes'[r] = writes[r]
                /\ \A n \in Nodes : pluginData'[n] \in {pluginData[n], EmptyString}]_vars

C10_Witness ==
    /\ timer[1] = "fired"
    /\ fetchState[1] = "resolved"
    /\ Is2xx(response[1].status)
    /\ response[1].created >= 1
    /\ promise[1] = "rejected"
    /\ ui[1] = <<TimeoutMessage>>
    /\ writes[1] = <<>>

\* run r was started with settings that lack the endpoint, the owner or the repo,
\* or found no QA category
LacksPrecondition(r) ==
    /\ pc[r] # "idle"
    /\ \/ settings[r].endpoint = ""
       \/ settings[r].owner = ""
       \/ settings[r].repo = ""
       \/ category[r] = NoCategory

\* C11: a run whose settings lack the endpoint, owner or repo, or that finds no QA
\* category, has ended with exactly one error message as soon as it was started;
\* it collected nothing, made no call to the sync endpoint and wrote no SyncRecord.
C11_PreconditionErrors ==
    \A r \in Runs : LacksPrecondition(r) =>
        /\ pc[r] = "done"
        /\ Len(ui[r]) = 1
        /\ ui[r][1] \in {MissingEndpoint, MissingOwnerRepo, MissingFileKey, MissingCategory}
        /\ ui[r][1].type = "error"
        /\ settings[r].endpoint = "" => ui[r][1] = MissingEndpoint
        /\ issues[r] = <<>>
        /\ promise[r] = "none" /\ fetchState[r] = "none" /\ netStage[r] = "none"
        /\ request[r] = NoRequest
        /\ writes[r] = <<>>

C11_Witness ==
    /\ started = 2
    /\ LacksPrecondition(1)
    /\ settings[1].endpoint # "" /\ settings[1].owner # "" /\ settings[1].repo # ""
    /\ settings[1].fileKey # ""
    /\ category[1] = NoCategory
    /\ ui[1] = <<MissingCategory>>
    /\ \E n \in Nodes : ~Falsy(pluginData[n])

\* the service has answered run r's request, which passes the top-level checks
PassedTopLevel(r) == netStage[r] = "response" /\ TopLevelStatus(request[r], env) = 0

\* the positions of the items of run r's request that lack a title or a body
MissingAt(r) ==
    {i \in 1..Len(request[r].payload.issues) : MissingTitleOrBody(request[r].payload.issues[i])}

\* C12: an item with a missing or empty title or body gets, inside an HTTP 200
\* response, a result with status 400 and an error message; it is counted in failed
\* and the service makes no issue-creation call for it (one call per other item).
C12_InvalidItemPerItem400 ==
    \A r \in Runs : PassedTopLevel(r) =>
        LET items == request[r].payload.issues
            resp == response[r]
        IN  /\ resp.status = 200
            /\ Len(resp.results) = Len(items)
            /\ \A i \in MissingAt(r) :
                  /\ resp.results[i].status = 400
                  /\ resp.results[i].error = "Missing title or body"
                  /\ resp.results[i].url = ""
            /\ resp.failed
                  = Cardinality({i \in 1..Len(resp.results) : ~Is2xx(resp.results[i].status)})
            /\ resp.failed >= Cardinality(MissingAt(r))
            /\ calls[r].creates = Len(items) - Cardinality(MissingAt(r))

C12_Witness ==
    /\ PassedTopLevel(1)
    /\ Len(request[1].payload.issues) = 2
    /\ MissingAt(1) = {1}
    /\ request[1].payload.issues[1].title = ""
    /\ request[1].payload.issues[1].body # EmptyBody
    /\ response[1].status = 200
    /\ response[1].results[1].status = 400
    /\ Is2xx(response[1].results[2].status)
    /\ response[1].failed = 1
    /\ calls[1].creates = 1
    /\ \A b \in Bodies : tracker[b] <= 1

\* a secret is configured and the request's header is missing or different
SecretRefused(r) == env.secret # "" /\ request[r].secret # env.secret

\* the payload is malformed JSON or lacks owner, repo or an issues array
Malformed(r) ==
    \/ ~request[r].parses
    \/ request[r].payload.owner = ""
    \/ request[r].payload.repo = ""
    \/ ~request[r].payload.isArray

\* C13: the service answers 405 for a method other than POST and OPTIONS, else 401
\* when a configured secret is not matched, else 500 when the credential is missing,
\* else 400 for a malformed payload; each of these comes with an error text, no
\* result, no project lookup and no issue creation; and with no secret configured
\* the header is not looked at.
C13_TopLevelErrors ==
    \A r \in Runs : netStage[r] = "response" =>
        LET req == request[r]
            resp == response[r]
        IN  /\ req.method \notin {"POST", "OPTIONS"} => resp.status = 405
            /\ (req.method = "POST" /\ SecretRefused(r)) => resp.status = 401
            /\ (req.method = "POST" /\ ~SecretRefused(r) /\ ~env.token) => resp.status = 500
            /\ (req.method = "POST" /\ ~SecretRefused(r) /\ env.token /\ Malformed(r))
                  => resp.status = 400
            /\ (req.method = "POST" /\ env.secret = "" /\ env.token /\ ~Malformed(r))
                  => resp.status = 200
            /\ resp.status \in {405, 401, 500, 400} =>
                  /\ resp.text # ""
                  /\ resp.results = <<>>
                  /\ calls[r] = NoCalls
                  /\ \A b \in Bodies : tracker[b] = 0

C13_Witness ==
    /\ netStage[1] = "response"
    /\ request[1].method = "POST"
    /\ request[1].secret = "guess"
    /\ env.secret = "s3"
    /\ ~env.token
    /\ response[1].status = 401
    /\ calls[1] = NoCalls

\* the stored value is the empty string, or the JSON text of an array in which no
\* signature occurs twice
WellFormedRecord(stored) ==
    \/ stored = EmptyString
    \/ /\ stored.kind = "array"
       /\ \A i, j \in 1..Len(JSONparse(stored)) :
             JSONparse(stored)[i] = JSONparse(stored)[j] => i = j

\* the step is a reset: no sync handler moves and every run is marked interrupted
ResetStep ==
    /\ prev' = [r \in Runs |-> Interrupted]
    /\ pc' = pc /\ started' = started /\ writes' = writes /\ ui' = ui

\* C14: every SyncRecord is empty or a duplicate-free array, in every state; a
\* step other than a reset keeps what a record holds, in order, and may only
\* append to it; a reset step leaves a record as it is or empties it.
C14_RecordInvariant ==
    [][\A n \in Nodes :
          /\ WellFormedRecord(pluginData[n])
          /\ WellFormedRecord(pluginData'[n])
          /\ \/ /\ Len(JSONparse(pluginData'[n])) >= Len(JSONparse(pluginData[n]))
                /\ SubSeq(JSONparse(pluginData'[n]), 1, Len(JSONparse(pluginData[n])))
                      = JSONparse(pluginData[n])
             \/ ResetStep /\ pluginData'[n] = EmptyString]_vars

C14_Witness ==
    /\ prev[1] = Interrupted
    /\ writes[1] # <<>>
    /\ pluginData[Node12] = EmptyString
    /\ Len(JSONparse(pluginData[Node21])) >= 1
    /\ \E i \in 1..Len(writes[1]) : writes[1][i][1] = Node12

\* the base-31 polynomial hash modulo 2^32, on four bytes, least significant first
PolyStep(b, c) ==
    LET t1 == 31 * b[1] + c
        t2 == 31 * b[2] + (t1 \div 256)
        t3 == 31 * b[3] + (t2 \div 256)
        t4 == 31 * b[4] + (t3 \div 256)
    IN  <<t1 % 256, t2 % 256, t3 % 256, t4 % 256>>

RECURSIVE PolyHash(_)
PolyHash(value) ==
    IF value = <<>> THEN <<0, 0, 0, 0>>
    ELSE PolyStep(PolyHash(SubSeq(value, 1, Len(value) - 1)), value[Len(value)])

RECURSIVE StripZeros(_)
\* a digit string without its leading '0's, the last digit kept
StripZeros(digits) ==
    IF Len(digits) > 1 /\ Head(digits) = 48 THEN StripZeros(Tail(digits)) ELSE digits

\* the hexadecimal numeral, lower case, of the number the four bytes make
Hexadecimal(b) ==
    LET digitChars == <<48, 49, 50, 51, 52, 53, 54, 55, 56, 57, 97, 98, 99, 100, 101, 102>>
        pair(x) == <<digitChars[(x \div 16) + 1], digitChars[(x % 16) + 1]>>
    IN  StripZeros(pair(b[4]) \o pair(b[3]) \o pair(b[2]) \o pair(b[1]))

\* C15: however often it is applied, the signature construction yields for a triple
\* (itemId, categoryId, bodyText) the hexadecimal numeral of the base-31 polynomial
\* hash, modulo 2^32, of the character codes of `itemId|categoryId|bodyText`; it
\* yields a non-empty string for every triple, empty category and empty body
\* included, and equal strings for equal triples.
C15_SignatureIsPolynomialHash ==
    sample.signed > 0 =>
        /\ sample.signature
              = Hexadecimal(PolyHash(sample.nodeId \o <<124>> \o sample.categoryId
                                        \o <<124>> \o sample.text))
        /\ sample.otherSignature
              = Hexadecimal(PolyHash(sample.nodeId \o <<124>> \o sample.categoryId
                                        \o <<124>> \o sample.other))
        /\ sample.signature # <<>>
        /\ sample.text = sample.other => sample.signature = sample.otherSignature

C15_Witness ==
    /\ sample.signed = MaxRuns
    /\ sample.categoryId = <<>>
    /\ sample.text = <<>>
    /\ sample.nodeId = Node12
    /\ Len(sample.otherSignature) = 8
    \* "2cda869": seven digits, the numeral has no leading zero
    /\ sample.signature = <<50, 99, 100, 97, 56, 54, 57>>

\* C16: two annotations of one item with the same category and different bodies
\* get different signatures.
C16_DifferentBodiesDiffer ==
    (sample.signed > 0 /\ sample.text # sample.other)
        => sample.signature # sample.otherSignature

\* the step is one pass of run r's collect loop
CollectsOne(r) == pc[r] = "collect" /\ pos'[r] = pos[r] + 1

\* how many annotations the nodes in the scope of run r carry
RECURSIVE AnnotationsInScope(_, _)
AnnotationsInScope(r, nodes) ==
    IF nodes = {} THEN 0
    ELSE LET n == CHOOSE x \in nodes : TRUE
         IN  (IF InScope(settings[r], n) THEN Len(doc[n]) ELSE 0)
                + AnnotationsInScope(r, nodes \ {n})

\* C17: the collect loop passes over every annotation of every node in scope, and
\* puts one into the batch exactly when its category is the QA category and not
\* (skipSynced and the node's record holds its signature); with skipSynced off a
\* QA annotation is put in whatever the record holds.  What is put in carries the
\* node's id and the annotation's signature.
C17_CollectIff ==
    [][\A r \in Runs :
          /\ CollectsOne(r) =>
                LET at == Traversal(doc, settings[r], 1, 1)[pos[r]]
                    annotation == doc[at.node][at.index]
                    signature == SignatureOf(at.node, annotation.categoryId, annotation.text)
                    included ==
                        /\ annotation.categoryId = QaCategoryId
                        /\ ~(settings[r].skipSynced /\ Recorded(at.node, signature))
                IN  /\ InScope(settings[r], at.node)
                    /\ included =>
                          /\ Len(issues'[r]) = Len(issues[r]) + 1
                          /\ SubSeq(issues'[r], 1, Len(issues[r])) = issues[r]
                          /\ issues'[r][Len(issues'[r])].nodeId = at.node
                          /\ issues'[r][Len(issues'[r])].signature = signature
                          /\ at.node \in nodeMap'[r]
                    /\ ~included => issues'[r] = issues[r]
          /\ (pc[r] = "collect" /\ ~CollectsOne(r)) => issues'[r] = issues[r]
          /\ (pc[r] = "collect" /\ pc'[r] # "collect")
                => pos[r] - 1 = AnnotationsInScope(r, Nodes)]_vars

C17_Witness ==
    /\ started = 2
    /\ pc[1] = "await"
    /\ writes[1] = <<>>
    /\ ~settings[1].skipSynced
    /\ Len(doc[Node12]) = 2
    /\ doc[Node12][1].categoryId = DevCategoryId
    /\ Len(issues[1]) = 1
    /\ issues[1][1].nodeId = Node12
    /\ Recorded(Node12, issues[1][1].signature)

\* the step is run r receiving the response it awaits
ReceivesResponse(r) == promise[r] = "pending" /\ promise'[r] = "resolved"

\* run r has not received a response: it collects, awaits, or ended with the
\* empty-batch message or an error
BeforeReconcile(r) ==
    \/ pc[r] \in {"collect", "await"}
    \/ pc[r] = "done" /\ ui[r] # <<>> /\ ui[r][1].type \in {"empty", "error"}

\* C18: a sync run calls setPluginData only in the step in which it receives the
\* response: while it collects and awaits, and after it ended with an empty batch
\* or an error, it has written nothing, and SyncRecords change in no step of a
\* sync run other than the receipt of a response (a reset is another handler).
C18_NoWriteBeforeResponse ==
    [][/\ \A r \in Runs :
             /\ BeforeReconcile(r) => writes[r] = <<>>
             /\ BeforeReconcile(r)' => writes'[r] = <<>>
             /\ ~ReceivesResponse(r) => writes'[r] \in {writes[r], <<>>}
       /\ pluginData' # pluginData => (ResetStep \/ \E r \in Runs : ReceivesResponse(r))]_vars

C18_Witness ==
    /\ pc[1] = "await"
    /\ netStage[1] = "response"
    /\ fetchState[1] = "pending"
    /\ writes[1] = <<>>
    /\ pluginData = [n \in Nodes |-> EmptyString]
    /\ Len(issues[1]) = 2
    /\ \A i \in 1..Len(response[1].results) : Is2xx(response[1].results[i].status)
    /\ response[1].created = 2

\* run r received an ok response whose result i confirms a signature of a node it sent
Confirmed(r, i) ==
    /\ promise[r] = "resolved"
    /\ Is2xx(response[r].status)
    /\ Is2xx(response[r].results[i].status)
    /\ response[r].results[i].nodeId \in nodeMap[r]

\* C19: with sync runs interleaved in any way, every SyncRecord is at all times
\* empty or a duplicate-free array, and holds every signature that a run in either
\* slot has been confirmed: no reconcile undoes or loses what another one stored.
\* (The tracker may have created an issue twice.)
C19_NoLostUpdate ==
    /\ \A n \in Nodes : WellFormedRecord(pluginData[n])
    /\ \A r \in Runs : \A i \in 1..Len(response[r].results) :
          Confirmed(r, i)
              => Recorded(response[r].results[i].nodeId, response[r].results[i].signature)

C19_Witness ==
    /\ pc[1] = "done" /\ pc[2] = "done"
    /\ issues[1] = issues[2]
    /\ Len(issues[1]) = 2
    /\ Len(writes[1]) = 1 /\ Len(writes[2]) = 1
    /\ response[1].failed = 1
    /\ \E b \in Bodies : tracker[b] = 2
    /\ Len(JSONparse(pluginData[Node12])) = 2

\* the status the item loop reports for a creation call with this answer
ReportedStatus(create) == IF create.threw THEN 500 ELSE create.status

\* C20: within one request every item is attempted whatever happened to the items
\* before it: there is one result per item, one creation call per item that has a
\* title and a body, and the result of such an item is the tracker's answer to its
\* own call (500 when the call threw), also after items that failed validation,
\* got a non-2xx answer or whose call threw.
C20_Bulkhead ==
    \A r \in Runs : PassedTopLevel(r) =>
        LET items == request[r].payload.issues
            resp == response[r]
        IN  /\ Len(resp.results) = Len(items)
            /\ calls[r].creates = Len(items) - Cardinality(MissingAt(r))
            /\ \A i \in 1..Len(items) :
                  /\ i \in MissingAt(r) => resp.results[i].status = 400
                  /\ i \notin MissingAt(r)
                        => resp.results[i].status = ReportedStatus(answers[r].ocs[i].create)
            /\ \A b \in Bodies :
                  tracker[b] = Cardinality({i \in 1..Len(items) :
                                              /\ items[i].body = b
                                              /\ Is2xx(resp.results[i].status)})

C20_Witness ==
    /\ PassedTopLevel(1)
    /\ Len(request[1].payload.issues) = 2
    /\ MissingAt(1) = {}
    /\ answers[1].ocs[1].create.threw
    /\ response[1].results[1].status = 500
    /\ Is2xx(response[1].results[2].status)
    /\ calls[1].creates = 2
    /\ response[1].created = 1 /\ response[1].failed = 1

(***************************************************************************)
(* C21..C23, C29: the service's calls to the tracker (SpecSteps).          *)
(***************************************************************************)
\* the positions in the log of the events of a kind
Starts(kind) ==
    {k \in 1..Len(svc.log) : svc.log[k].ev = "start" /\ svc.log[k].call.kind = kind}
Ends(kind) ==
    {k \in 1..Len(svc.log) : svc.log[k].ev = "end" /\ svc.log[k].call.kind = kind}

\* C21: within one request at most one call to the tracker is in flight at any
\* time: every call that started returns before another starts; the creation
\* call of a later item starts only after the creation call and the attachment
\* call (if any) of every earlier item have returned; so the attempts are
\* totally ordered, in input order.
C21_Sequential ==
    /\ Cardinality(svc.inflight) <= 1
    /\ \A k \in 1..Len(svc.log) :
          svc.log[k].ev = "start" =>
              IF k = Len(svc.log) THEN svc.inflight = {svc.log[k].call}
              ELSE svc.log[k + 1].ev = "end" /\ svc.log[k + 1].call = svc.log[k].call
    /\ (svc.log = <<>> \/ svc.log[Len(svc.log)].ev = "end") => svc.inflight = {}
    /\ \A m \in Starts("create") :
          \A k \in 1..Len(svc.log) :
              /\ svc.log[k].call.kind \in {"create", "attach"}
              /\ svc.log[k].call.item < svc.log[m].call.item
              => k < m
    /\ \A m \in Starts("create") :
          \A k \in 1..Len(svc.log) :
              svc.log[k].call.kind \in {"create", "attach"} /\ k > m
              => svc.log[k].call.item >= svc.log[m].call.item

\* a batch of two items: the first is created and attached, and only then does
\* the creation call of the second start
C21_Witness ==
    /\ Len(svc.log) >= 5
    /\ \E k \in Ends("attach") :
          /\ svc.log[k].call.item = 1
          /\ k < Len(svc.log)
          /\ svc.log[k + 1].ev = "start"
          /\ svc.log[k + 1].call = Call("create", "", 2)
    /\ svc.inflight = {Call("create", "", 2)}

\* the project resolution of the request is over
Resolved ==
    /\ svc.phase \in {"create", "attach", "done"}
    /\ TopLevelStatus(request[1], env) = 0

\* the answer the lookup in a scope returned, if the scope was consulted
Consulted(scope) == \E k \in Ends("lookup") : svc.log[k].call.scope = scope
AnswerOf(scope) ==
    svc.log[CHOOSE k \in Ends("lookup") : svc.log[k].call.scope = scope].outcome

\* the boards an answer offers for the reference: by number the board the
\* tracker returned, by name the listed boards titled exactly as configured
Offered(by, answer) ==
    IF answer.threw \/ ~Is2xx(answer.status) THEN {}
    ELSE IF by = "number" THEN {answer.nodes[k].id : k \in 1..Len(answer.nodes)}
    ELSE {answer.nodes[k].id : k \in {m \in 1..Len(answer.nodes) :
                                         answer.nodes[m].title = env.projectName}}

\* the resolution order; afterThrow tells whether the user scope is taken to
\* be consulted also after an organization lookup that threw
ResolutionOrder(afterThrow) ==
    Resolved =>
        LET by == IF env.projectNumber # 0 THEN "number"
                  ELSE IF env.projectName # "" THEN "name" ELSE "none"
        IN  /\ \A k \in Starts("lookup") : svc.log[k].call.by = by
            /\ \A k \in Starts("lookup"), m \in Starts("lookup") :
                  svc.log[k].call.scope = svc.log[m].call.scope => k = m
            /\ Consulted("organization") <=> by # "none"
            /\ Consulted("user") =>
                  /\ Consulted("organization")
                  /\ \A k \in Starts("lookup"), m \in Starts("lookup") :
                        /\ svc.log[k].call.scope = "organization"
                        /\ svc.log[m].call.scope = "user"
                        => k < m
            /\ by # "none" =>
                  LET org == AnswerOf("organization")
                  IN  /\ Consulted("user") <=>
                            /\ Offered(by, org) = {}
                            /\ afterThrow \/ ~org.threw
                      /\ IF Offered(by, org) # {} THEN svc.projectId \in Offered(by, org)
                         ELSE IF Consulted("user") /\ Offered(by, AnswerOf("user")) # {}
                         THEN svc.projectId \in Offered(by, AnswerOf("user"))
                         ELSE svc.projectId = NullId
            /\ by = "none" => svc.projectId = NullId

\* C22 (as stated): a numeric reference is looked up by number and the name is
\* not used; otherwise the name is matched by exact title; the organization
\* scope is consulted first and the user scope whenever the organization scope
\* yields no board; the first match is returned.
C22_ResolutionOrder == ResolutionOrder(TRUE)

\* C22 (amended): as above, but the user scope is consulted whenever the
\* organization lookup returns (with any status) without a matching board; an
\* organization lookup that throws ends the resolution with no board and the
\* user scope is not consulted.
C22_ResolutionOrderUnlessThrown == ResolutionOrder(FALSE)

\* both references configured; the organization has no board of that number and
\* the user's board of that number, titled otherwise than the name, is resolved
C22_Witness ==
    /\ Resolved
    /\ env.projectNumber # 0 /\ env.projectName = "Board"
    /\ Consulted("organization") /\ Consulted("user")
    /\ ~AnswerOf("organization").threw
    /\ svc.projectId = BoardOf("user", "board").id

\* a board was referred to and no lookup gave one: nothing matched, or the
\* lookups failed (non-2xx answer or thrown call)
NothingResolved ==
    /\ Resolved
    /\ Consulted("organization")
    /\ Offered(svc.log[1].call.by, AnswerOf("organization")) = {}
    /\ Consulted("user") => Offered(svc.log[1].call.by, AnswerOf("user")) = {}

CallsFor(kind, item) == {k \in Starts(kind) : svc.log[k].call.item = item}

\* C29: the service makes at most one issue-creation call and at most one
\* attachment call per batch item; an attachment call is made only for an item
\* whose creation call returned 2xx earlier in the same request, and only when
\* a board was resolved; an item that failed never triggers an attachment call.
C29_CallsPerItem ==
    LET issueList == request[1].payload.issues
    IN  /\ \A k \in Starts("create") \cup Starts("attach") :
              svc.log[k].call.item \in 1..Len(issueList)
        /\ \A j \in 1..Len(issueList) :
              /\ Cardinality(CallsFor("create", j)) <= 1
              /\ Cardinality(CallsFor("attach", j)) <= 1
              /\ MissingTitleOrBody(issueList[j]) =>
                    CallsFor("create", j) = {} /\ CallsFor("attach", j) = {}
              /\ \A m \in CallsFor("attach", j) :
                    /\ svc.projectId # NullId
                    /\ \E k \in Ends("create") :
                          /\ k < m
                          /\ svc.log[k].call.item = j
                          /\ ~svc.log[k].outcome.threw
                          /\ Is2xx(svc.log[k].outcome.status)
              /\ (svc.phase = "done" /\ Len(response[1].results) = Len(issueList)
                    /\ ~Is2xx(response[1].results[j].status))
                    => CallsFor("attach", j) = {}

\* with a board resolved, the first item's creation is refused by the tracker
\* and no attachment is called for it; the second is created and attached
C29_Witness ==
    /\ svc.phase = "done"
    /\ svc.projectId # NullId
    /\ Len(request[1].payload.issues) = 2
    /\ Cardinality(CallsFor("create", 1)) = 1 /\ CallsFor("attach", 1) = {}
    /\ response[1].results[1].status = 422
    /\ Cardinality(CallsFor("create", 2)) = 1 /\ Cardinality(CallsFor("attach", 2)) = 1

(***************************************************************************)
(* C24..C28: the plugin.                                                   *)
(***************************************************************************)
\* the scope of a reset
ResetScope(scanAll, n) == InScope([NoSettings EXCEPT !.scanAllPages = scanAll], n)

\* what a reset step, the one step that empties a record, does to the records
ResetClears ==
    (\E n \in Nodes : ~Falsy(pluginData[n]) /\ Falsy(pluginData'[n])) =>
        \E scanAll \in BOOLEAN :
           \A n \in Nodes :
               IF ResetScope(scanAll, n)
               THEN pluginData'[n] = EmptyString /\ cleared'[n].over /\ ~cleared'[n].followed
               ELSE pluginData'[n] = pluginData[n] /\ cleared'[n] = cleared[n]

\* run r comes to a QA annotation of a reset item and puts it into its batch:
\* r being the first sync started since the reset, or (unwritten) the item
\* not having been written to since the reset
CollectsAgain(r, unwritten) ==
    (CollectsOne(r) /\ settings[r].skipSynced) =>
        LET at == Traversal(doc, settings[r], 1, 1)[pos[r]]
            annotation == doc[at.node][at.index]
            due == IF unwritten THEN ~cleared[at.node].written ELSE cleared[at.node].followed
        IN  (cleared[at.node].over /\ due /\ annotation.categoryId = QaCategoryId)
            => issues'[r] = Append(issues[r], IssueRequestItem(at.node, annotation))

\* C24 (as stated): a reset over a scope (the current page, or all pages when
\* asked for) leaves every item of the scope with an empty SyncRecord and every
\* item outside it with the record it had, and the sync that follows the reset,
\* run with skipSynced, puts every QA annotation of the reset items into its
\* batch again.
C24_ResetThenCollectsAll ==
    [][ResetClears /\ \A r \in Runs : CollectsAgain(r, FALSE)]_vars

\* C24 (amended): a reset leaves every item of its scope with an empty
\* SyncRecord and every item outside it with the record it had; a reset item
\* keeps the empty record until a sync reconciles a result for it; and a sync
\* with skipSynced puts every QA annotation of a reset item that no sync has
\* written to since the reset into its batch again.
C24_Reset ==
    [][/\ ResetClears
       /\ \A n \in Nodes :
             (cleared'[n].over /\ ~cleared'[n].written) => pluginData'[n] = EmptyString
       /\ \A r \in Runs : CollectsAgain(r, TRUE)]_vars

\* a reset removed the record of an annotation of node 1:2; the run that
\* followed it, skipping what is synced, has collected the annotation again
C24_Witness ==
    /\ pc[1] = "await"
    /\ settings[1].skipSynced
    /\ prev[1].clean
    /\ \E i \in 1..Len(issues[1]) :
          /\ issues[1][i].nodeId = Node12
          /\ cleared[Node12].followed /\ ~cleared[Node12].written
          /\ Includes(JSONparse(cleared[Node12].removed), issues[1][i].signature)
    /\ pluginData[Node12] = EmptyString

\* C25: every item the collector builds has a non-empty title and a non-empty
\* body, the text of an annotation without text being replaced by the
\* placeholder; and no result the service returns for a batch the collector
\* built is the per-item 400 'Missing title or body'.
C25_ItemsNeverEmpty ==
    [][\A r \in Runs :
          /\ \A i \in 1..Len(issues'[r]) :
                /\ issues'[r][i].title # ""
                /\ issues'[r][i].body # EmptyBody
                /\ issues'[r][i].body.annotationText # <<>>
                /\ ~MissingTitleOrBody(issues'[r][i])
          /\ (CollectsOne(r) /\ issues'[r] # issues[r]) =>
                LET at == Traversal(doc, settings[r], 1, 1)[pos[r]]
                    annotation == doc[at.node][at.index]
                    item == issues'[r][Len(issues'[r])]
                IN  /\ item.body.annotationText =
                          IF annotation.text = <<>> THEN NoAnnotationText ELSE annotation.text
                    /\ item.body.figmaLink = at.node
          /\ request'[r] # NoRequest => request'[r].payload.issues = issues'[r]
          /\ \A i \in 1..Len(response'[r].results) :
                ~(response'[r].results[i].status = 400
                  /\ response'[r].results[i].error = "Missing title or body")]_vars

\* an annotation without text was sent with the placeholder as its text, and
\* the service created its issue
C25_Witness ==
    /\ netStage[1] = "response"
    /\ response[1].status = 200
    /\ \E i \in 1..Len(issues[1]) :
          /\ issues[1][i].body = buildIssueBody(<<>>, issues[1][i].nodeId)
          /\ issues[1][i].body.annotationText = NoAnnotationText
          /\ issues[1][i].signature = SignatureOf(issues[1][i].nodeId, QaCategoryId, <<>>)
          /\ response[1].results[i].status = 201
          /\ tracker[issues[1][i].body] >= 1

\* C26: no batch built by one collect holds two items with the same
\* (nodeId, signature) pair.
C26_NoDuplicateInBatch ==
    \A r \in Runs :
        \A i \in 1..Len(issues[r]), j \in 1..Len(issues[r]) :
            KeyOf(issues[r][i]) = KeyOf(issues[r][j]) => i = j

\* the items of run r's batch the service counted as created: those whose
\* creation call the tracker answered with a 2xx status
CountedCreated(r) ==
    {i \in 1..Len(issues[r]) :
        /\ ~answers[r].ocs[i].create.threw
        /\ Is2xx(answers[r].ocs[i].create.status)}

\* C27: when a run receives the 200 response the service produced for its
\* batch, the (nodeId, signature) pairs it marks as synced are exactly the
\* pairs of the items the service counted as created, and the created count it
\* reports is the service's created.
C27_ReconcileMatchesService ==
    [][\A r \in Runs :
          (ReceivesResponse(r) /\ response[r].status = 200) =>
              /\ Len(response[r].results) = Len(issues[r])
              /\ response[r].created = Cardinality(CountedCreated(r))
              /\ \A i \in 1..Len(issues[r]) :
                    Marks(nodeMap[r], response[r].results[i]) <=> i \in CountedCreated(r)
              /\ \A i \in CountedCreated(r) :
                    /\ KeyOf(response[r].results[i]) = KeyOf(issues[r][i])
                    /\ Includes(JSONparse(pluginData'[issues[r][i].nodeId]),
                                issues[r][i].signature)
              /\ \A n \in Nodes :
                    \A k \in 1..Len(JSONparse(pluginData'[n])) :
                        \/ Includes(JSONparse(pluginData[n]), JSONparse(pluginData'[n])[k])
                        \/ \E i \in CountedCreated(r) :
                              KeyOf(issues[r][i]) = <<n, JSONparse(pluginData'[n])[k]>>
              /\ ui'[r] = Append(ui[r], Done(response[r].created, response[r].failed))]_vars

\* of a batch of two the service created one item and failed the other; the
\* run recorded the pair of the created one alone and reported one created
C27_Witness ==
    /\ pc[1] = "done"
    /\ promise[1] = "resolved"
    /\ Len(issues[1]) = 2
    /\ response[1].status = 200 /\ response[1].created = 1 /\ response[1].failed = 1
    /\ CountedCreated(1) = {2}
    /\ ui[1] = <<Done(1, 1)>>
    /\ writes[1] = <<KeyOf(issues[1][2])>>
    /\ KeyOf(issues[1][1]) # KeyOf(issues[1][2])

\* the run has ended with exactly one terminal message
EndedWithOneMessage(r) ==
    /\ pc[r] = "done"
    /\ Len(ui[r]) = 1
    /\ ui[r][1].type \in {"error", "empty", "done"}

\* C28: every sync run that was started ends, whatever the service, the
\* tracker and the network do (answer, reject, fail, never answer), and when
\* it has ended it has posted exactly one terminal message (error, empty or
\* done); while it runs it has posted none.
C28_EndsWithOneMessage ==
    /\ [](pc[1] \in {"collect", "await"} => ui[1] = <<>>)
    /\ [](pc[1] = "done" => EndedWithOneMessage(1))
    /\ (pc[1] \in {"collect", "await"}) ~> EndedWithOneMessage(1)

\* the remote side never answered and the run has ended on its timer, with
\* the timeout message
C28_Witness ==
    /\ EndedWithOneMessage(1)
    /\ timer[1] = "fired"
    /\ netStage[1] = "request"
    /\ fetchState[1] = "pending"
    /\ ui[1] = <<TimeoutMessage>>

=============================================================================
